---- MODULE Spec2Model ----
(***************************************************************************)
(* Model of the connector sink manager of tremor-runtime                   *)
(* (src/src/connectors/sink.rs): the SinkManager actor loop, the           *)
(* contraflow fan-out (send_contraflow) and the reply handling             *)
(* (handle_replies).                                                       *)
(*                                                                         *)
(* One action per arm of the `match` in SinkManager::run.  Every call the  *)
(* actor makes to the outside while it handles one message (a lifecycle    *)
(* hook, on_event/on_signal, send_insight on a pipeline, a send on a drain *)
(* reply channel) is recorded, in call order, in `effects`; `handled` is   *)
(* the message that was handled last together with the values the user    *)
(* sink and the clock returned while it was handled.                       *)
(***************************************************************************)
EXTENDS Integers, Sequences, FiniteSets, TLC

\* ------------------------------------------------------------------ bounds
MaxUid == 2          \* source uids are 1..MaxUid
MaxPipelines == 2    \* longest pipeline list the model builds
MaxReplies == 2      \* longest reply vector on_event / on_signal return
QSize == 2           \* the configured qsize: capacity of the control/data channel
MaxReplyQueue == 2   \* most async replies the model leaves waiting in reply_rx
MaxEndpoints == 2         \* join endpoints handed to try_join
MaxRounds == 2            \* rounds over the endpoints followed by the model
MaxHooks == 4             \* lifecycle hook calls recorded by SpecHooks
MaxStream == 2       \* stream ids are 0..MaxStream

\* ------------------------------------------------------------ value spaces
Urls == {"p1", "p2"}
Uids == 1..MaxUid
DrainChans == {"r1", "r2"}
EventIds == {42, 100}
OpMetas == {{"opA"}, {"opB"}}
IngestTimes == {7}
Durations == {0, 5}
NowNs == 9
DefaultEventId == 0
NoDuration == -1
NoChan == "none"

SinkState == {"Initialized", "Running", "Paused", "Draining", "Drained", "Stopped"}

\* CbAction of tremor_pipeline, as far as the sink uses it
CbAction(a, u) == [action |-> a, uid |-> u]
CbNone == CbAction("None", 0)
CbOpen == CbAction("Open", 0)
CbClose == CbAction("Close", 0)
CbAck == CbAction("Ack", 0)
CbFail == CbAction("Fail", 0)
CbDrained(u) == CbAction("Drained", u)

\* enum SinkReply { None, Ack, Fail, CB(CbAction) }
SinkReplyOf(t, c) == [tag |-> t, cb |-> c]
ReplyNone == SinkReplyOf("None", CbNone)
ReplyAck == SinkReplyOf("Ack", CbNone)
ReplyFail == SinkReplyOf("Fail", CbNone)
ReplyCB(c) == SinkReplyOf("CB", c)
SinkReply == {ReplyNone, ReplyAck, ReplyFail, ReplyCB(CbClose)}

\* SignalKind of tremor_pipeline: Start(uid), Drain(uid) and the kinds the sink ignores
SignalKindOf(k, u) == [kind |-> k, uid |-> u]
NoKind == SignalKindOf("None", 0)
SignalKind == {SignalKindOf("Start", u) : u \in Uids}
                \cup {SignalKindOf("Drain", u) : u \in Uids}
                \cup {SignalKindOf("Tick", 0)}

\* the fields of Event the sink reads
Events == [id : EventIds, ingest_ns : IngestTimes, op_meta : OpMetas,
           transactional : BOOLEAN, kind : {NoKind}]
Signals == [id : {DefaultEventId}, ingest_ns : IngestTimes, op_meta : OpMetas,
            transactional : {FALSE}, kind : SignalKind]

\* Vec<SinkReply> of length at most MaxReplies
RECURSIVE SeqsUpTo(_, _)
SeqsUpTo(S, n) ==
    IF n = 0 THEN {<<>>}
    ELSE LET shorter == SeqsUpTo(S, n - 1)
         IN shorter \cup {Append(s, x) : s \in {t \in shorter : Len(t) = n - 1}, x \in S}

\* ResultVec = Result<Vec<SinkReply>>
ResultOk(replies) == [ok |-> TRUE, replies |-> replies]
ResultErr == [ok |-> FALSE, replies |-> <<>>]
ResultVec == {ResultOk(r) : r \in SeqsUpTo(SinkReply, MaxReplies)} \cup {ResultErr}

\* --------------------------------------------------- the cluster node
\* system::ShutdownMode
ShutdownMode == {"Graceful", "Forceful"}
NoMode == "none"
\* one call made by the run task of the node
NodeCall(name, mode) == [call |-> name, mode |-> mode]
\* the node as Running::start returns it: the run task waits in select!, the
\* kill switch channel is empty and Running holds a sender
Started ==
    [pc |-> "select", branch |-> "none", received |-> "none", mode |-> NoMode,
     kill_switch |-> <<>>, senders |-> TRUE, calls |-> <<>>, result |-> "none",
     last |-> "start", stop |-> [mode |-> NoMode, res |-> "none"]]
\* try_join has not been called
NotJoining ==
    [pc |-> "idle", endpoints |-> <<>>, promote_to_voter |-> FALSE, next |-> 1,
     round |-> 0, calls |-> <<>>, result |-> "none"]
\* an empty store on a follower that has served no request
EmptyKv ==
    [store |-> [key \in {"k1", "k2"} |-> "none"], leader |-> FALSE,
     request |-> [endpoint |-> "none", key |-> "none", fails_at |-> "none"],
     calls |-> <<>>, result |-> [kind |-> "none", value |-> "none"], last |-> "start"]

\* ------------------------------------------------------------------- state
VARIABLES
    state,                  \* SinkManager.state
    pc,                     \* "loop" while the actor loop runs, "done" after the break
    pipelines,              \* SinkManager.pipelines, by url
    starts_received,        \* SinkManager.starts_received
    drains_received,        \* SinkManager.drains_received
    drain_channel,          \* SinkManager.drain_channel (NoChan for None)
    merged_operator_meta,   \* SinkManager.merged_operator_meta
    rx,                     \* SinkManager.rx: the SinkMsg sent and not yet received
    reply_rx,               \* SinkManager.reply_rx: the AsyncSinkReply not yet received
    serializer,             \* SinkManager.serializer
    failing,                \* the urls whose pipeline::Addr answers send_insight with Err
    hooks,                  \* the lifecycle hooks called so far, as SpecHooks records them
    node,                   \* raft::node::Running: its run task and its kill switch
    join,                   \* one call of raft::node::Node::try_join
    kv,                     \* raft::api::kv: the local store and the request served last
    handled,                \* the message handled last, with the sink's answers
    effects                 \* the calls made while handling it, in order

vars == <<state, pc, pipelines, starts_received, drains_received, drain_channel,
          merged_operator_meta, serializer, failing, hooks, rx, reply_rx,
          handled, effects, node, join, kv>>

chans == <<rx, reply_rx>>

\* what a handler taken without the channels and without the record of hooks
\* leaves alone
\* the cluster node, which shares nothing with the sink
raft_vars == <<node, join, kv>>

\* what the channel operations of the sink leave alone besides the sink
beside == <<hooks, raft_vars>>
apart == <<chans, beside>>

\* ------------------------------------------------------------------ effects
Hook(name) == [e |-> "hook", name |-> name]
CallSink(method, id) == [e |-> method, id |-> id]
Fanout(cf) == [e |-> "send_contraflow", cf |-> cf]
SendInsight(url, cf) == [e |-> "send_insight", to |-> url, cf |-> cf]
LogError(url) == [e |-> "error", to |-> url]
SendMsg(chan, msg) == [e |-> "send", chan |-> chan, msg |-> msg]
SerializerClear(dropped) == [e |-> "clear", dropped |-> dropped]
Encode(stream_id, with) == [e |-> "encode", stream_id |-> stream_id, with |-> with]

\* ---------------------------------------------------------- contraflow events
Contraflow(cb, id, ingest_ns, op_meta, duration) ==
    [cb |-> cb, id |-> id, ingest_ns |-> ingest_ns, op_meta |-> op_meta,
     duration |-> duration]
cb_ack_with_timing(ingest_ns, id, op_meta, duration) ==
    Contraflow(CbAck, id, ingest_ns, op_meta, duration)
cb_fail(ingest_ns, id, op_meta) ==
    Contraflow(CbFail, id, ingest_ns, op_meta, NoDuration)
insight(cb, id, ingest_ns, op_meta) ==
    Contraflow(cb, id, ingest_ns, op_meta, NoDuration)
cb_open(ingest_ns, op_meta) ==
    Contraflow(CbOpen, DefaultEventId, ingest_ns, op_meta, NoDuration)
\* mutant: the loss of the connection is announced as CB Open
cb_close_AsOpen(ingest_ns, op_meta) ==
    Contraflow(CbOpen, DefaultEventId, ingest_ns, op_meta, NoDuration)
cb_close(ingest_ns, op_meta) ==
    Contraflow(CbClose, DefaultEventId, ingest_ns, op_meta, NoDuration)

\* impl From<&Event> for ContraflowBuilder
ContraflowBuilderFrom(event) ==
    [event_id |-> event.id, ingest_ns |-> event.ingest_ns, op_meta |-> event.op_meta]
\* ContraflowBuilder::ack / into_ack
into_ack(b, duration) == cb_ack_with_timing(b.ingest_ns, b.event_id, b.op_meta, duration)
\* ContraflowBuilder::fail / into_fail
into_fail(b) == cb_fail(b.ingest_ns, b.event_id, b.op_meta)
\* ContraflowBuilder::cb / into_cb
into_cb(b, cb) == insight(cb, b.event_id, b.ingest_ns, b.op_meta)

\* ------------------------------------------------------------ send_contraflow
\* one call of send_contraflow: every binding but the first gets a clone, in
\* list order; the first binding gets the original, last; nothing is sent on
\* an empty list
\* addr.send_insight(contraflow) and the `if let Err(e)` around it
send_insight(url, cf) ==
    <<SendInsight(url, cf)>> \o (IF url \in failing THEN <<LogError(url)>> ELSE <<>>)

RECURSIVE SendEach(_, _)
SendEach(bindings, cf) ==
    IF bindings = <<>> THEN <<>>
    ELSE send_insight(Head(bindings), cf) \o SendEach(Tail(bindings), cf)

\* the bindings up to and including the first that fails
RECURSIVE SendUntilError(_, _)
SendUntilError(bindings, cf) ==
    IF bindings = <<>> THEN <<>>
    ELSE send_insight(Head(bindings), cf)
         \o (IF Head(bindings) \in failing THEN <<>>
             ELSE SendUntilError(Tail(bindings), cf))

\* mutant: the first send_insight that fails ends the fan-out
send_contraflow_StopsAtError(pls, contraflow) ==
    <<Fanout(contraflow)>>
    \o (IF pls = <<>> THEN <<>>
        ELSE SendUntilError(Tail(pls) \o <<Head(pls)>>, contraflow))

\* mutant: the first binding is skipped instead of being served last
send_contraflow_SkipsFirst(pls, contraflow) ==
    <<Fanout(contraflow)>>
    \o (IF pls = <<>> THEN <<>> ELSE SendEach(Tail(pls), contraflow))

send_contraflow(pls, contraflow) ==
    <<Fanout(contraflow)>>
    \o (IF pls = <<>> THEN <<>>
        ELSE SendEach(Tail(pls), contraflow) \o send_insight(Head(pls), contraflow))

\* ------------------------------------------------------------- handle_replies
ReplyContraflow(reply, duration, cf_builder) ==
    IF reply.tag = "Ack" THEN into_ack(cf_builder, duration)
    ELSE IF reply.tag = "Fail" THEN into_fail(cf_builder)
    ELSE into_cb(cf_builder, reply.cb)

\* the `for reply in reply_iter` loop over all replies but the first
RECURSIVE RestReplies(_, _, _, _)
RestReplies(rest, duration, cf_builder, pls) ==
    IF rest = <<>> THEN <<>>
    ELSE (IF Head(rest).tag = "None" THEN <<>>
          ELSE send_contraflow(pls, ReplyContraflow(Head(rest), duration, cf_builder)))
         \o RestReplies(Tail(rest), duration, cf_builder, pls)

\* the `match first` after the loop
FirstReply(first, duration, cf_builder, pls, send_auto_ack) ==
    IF first.tag = "None"
    THEN (IF send_auto_ack THEN send_contraflow(pls, into_ack(cf_builder, duration))
          ELSE <<>>)
    ELSE send_contraflow(pls, ReplyContraflow(first, duration, cf_builder))

\* mutant: the automatic ack is sent once for every None entry
RECURSIVE AckPerNone(_, _, _, _)
AckPerNone(rest, duration, cf_builder, pls) ==
    IF rest = <<>> THEN <<>>
    ELSE (IF Head(rest).tag = "None"
          THEN send_contraflow(pls, into_ack(cf_builder, duration))
          ELSE send_contraflow(pls, ReplyContraflow(Head(rest), duration, cf_builder)))
         \o AckPerNone(Tail(rest), duration, cf_builder, pls)

handle_replies_AckPerNone(replies, duration, cf_builder, pls, send_auto_ack) ==
    IF replies = <<>> THEN <<>>
    ELSE (IF send_auto_ack THEN AckPerNone(Tail(replies), duration, cf_builder, pls)
          ELSE RestReplies(Tail(replies), duration, cf_builder, pls))
         \o FirstReply(Head(replies), duration, cf_builder, pls, send_auto_ack)

\* mutant: the first reply is answered before the others
handle_replies_FirstFirst(replies, duration, cf_builder, pls, send_auto_ack) ==
    IF replies = <<>> THEN <<>>
    ELSE FirstReply(Head(replies), duration, cf_builder, pls, send_auto_ack)
         \o RestReplies(Tail(replies), duration, cf_builder, pls)

handle_replies(replies, duration, cf_builder, pls, send_auto_ack) ==
    IF replies = <<>> THEN <<>>
    ELSE RestReplies(Tail(replies), duration, cf_builder, pls)
         \o FirstReply(Head(replies), duration, cf_builder, pls, send_auto_ack)

\* ---------------------------------------------------------- EventSerializer
\* A codec with its postprocessors is known by whether a value went through it
\* since it was made.
Fresh == "fresh"
Used == "used"
DEFAULT_STREAM_ID == 0
StreamIds == 0..MaxStream
NoStreams == [s \in {} |-> Fresh]

\* EventSerializer::build
build == [primary |-> Fresh, streams |-> NoStreams]

\* mutant: the codec and postprocessors of a dropped stream are kept
drop_stream_KeepsPair(ser, stream_id) == ser

\* EventSerializer::drop_stream
drop_stream(ser, stream_id) ==
    [ser EXCEPT !.streams = [s \in DOMAIN ser.streams \ {stream_id} |-> ser.streams[s]]]

\* EventSerializer::clear
clear(ser) == [ser EXCEPT !.streams = NoStreams]

\* mutant: the default stream gets an entry of its own like any other stream
serialize_for_stream_EntryForDefault(ser, stream_id, fails_at) ==
    IF stream_id \in DOMAIN ser.streams
    THEN [ser EXCEPT !.streams = [s \in DOMAIN ser.streams |->
                                    IF s = stream_id THEN Used ELSE ser.streams[s]]]
    ELSE IF fails_at = "resolve"
    THEN ser
    ELSE [ser EXCEPT !.streams = [s \in DOMAIN ser.streams \cup {stream_id} |->
                                    IF s = stream_id THEN Used ELSE ser.streams[s]]]

\* EventSerializer::serialize_for_stream; fails_at names the step that returns
\* Err if it is executed: "resolve" (codec::resolve or make_postprocessors of a
\* new stream), "encode" (encode or postprocess), or "none"
serialize_for_stream(ser, stream_id, fails_at) ==
    IF stream_id = DEFAULT_STREAM_ID
    THEN [ser EXCEPT !.primary = Used]
    ELSE IF stream_id \in DOMAIN ser.streams
    THEN [ser EXCEPT !.streams = [s \in DOMAIN ser.streams |->
                                    IF s = stream_id THEN Used ELSE ser.streams[s]]]
    ELSE IF fails_at = "resolve"
    THEN ser
    ELSE [ser EXCEPT !.streams = [s \in DOMAIN ser.streams \cup {stream_id} |->
                                    IF s = stream_id THEN Used ELSE ser.streams[s]]]

\* EventSerializer::serialize
serialize(ser, fails_at) == serialize_for_stream(ser, DEFAULT_STREAM_ID, fails_at)

\* what a sink may do with the `&mut EventSerializer` it is handed
SerializerCall ==
    [op : {"serialize_for_stream"}, stream_id : StreamIds,
     fails_at : {"none", "resolve", "encode"}]
    \cup [op : {"serialize"}, fails_at : {"none", "encode"}]
    \cup [op : {"drop_stream"}, stream_id : StreamIds]
    \cup [op : {"clear"}]

ApplyCall(ser, call) ==
    CASE call.op = "serialize_for_stream" ->
             serialize_for_stream(ser, call.stream_id, call.fails_at)
      [] call.op = "serialize" -> serialize(ser, call.fails_at)
      [] call.op = "drop_stream" -> drop_stream(ser, call.stream_id)
      [] call.op = "clear" -> clear(ser)

RECURSIVE ApplyCalls(_, _)
ApplyCalls(ser, calls) ==
    IF calls = <<>> THEN ser
    ELSE ApplyCalls(ApplyCall(ser, Head(calls)), Tail(calls))

NoCalls == <<>>

\* the codec and postprocessors serialize_for_stream encodes the value with:
\* the primary ones, those of the stream's entry, or newly made ones
EncodesWith(ser, stream_id) ==
    IF stream_id = DEFAULT_STREAM_ID THEN ser.primary
    ELSE IF stream_id \in DOMAIN ser.streams THEN ser.streams[stream_id]
    ELSE Fresh

\* the encode of one call, if the call gets that far
CallEffects(ser, call) ==
    IF call.op = "serialize" THEN <<Encode(DEFAULT_STREAM_ID, ser.primary)>>
    ELSE IF call.op # "serialize_for_stream" THEN <<>>
    ELSE IF /\ call.stream_id # DEFAULT_STREAM_ID
            /\ call.stream_id \notin DOMAIN ser.streams
            /\ call.fails_at = "resolve"
    THEN <<>>
    ELSE <<Encode(call.stream_id, EncodesWith(ser, call.stream_id))>>

RECURSIVE SerializerEffects(_, _)
SerializerEffects(ser, calls) ==
    IF calls = <<>> THEN <<>>
    ELSE CallEffects(ser, Head(calls))
         \o SerializerEffects(ApplyCall(ser, Head(calls)), Tail(calls))

\* ------------------------------------------------------------------- actions
Init ==
    /\ state = "Initialized"
    /\ pc = "loop"
    /\ pipelines = <<>>
    /\ starts_received = {}
    /\ drains_received = {}
    /\ drain_channel = NoChan
    /\ merged_operator_meta = {}
    /\ serializer = build
    /\ failing = {}
    /\ hooks = <<>>
    /\ node = Started
    /\ join = NotJoining
    /\ kv = EmptyKv
    /\ rx = <<>>
    /\ reply_rx = <<>>
    /\ handled = [type |-> "Nothing"]
    /\ effects = <<>>

\* SinkMsg::Connect
OnConnect_Prepends(new_pipelines) ==
    /\ pc = "loop"
    /\ Len(pipelines) + Len(new_pipelines) <= MaxPipelines
    /\ pipelines' = new_pipelines \o pipelines
    /\ handled' = [type |-> "Connect", pipelines |-> new_pipelines]
    /\ effects' = <<>>
    /\ UNCHANGED <<state, pc, starts_received, drains_received, drain_channel,
                   merged_operator_meta, serializer>>
    /\ UNCHANGED failing

OnConnect(new_pipelines) ==
    /\ pc = "loop"
    /\ Len(pipelines) + Len(new_pipelines) <= MaxPipelines
    /\ pipelines' = pipelines \o new_pipelines
    /\ handled' = [type |-> "Connect", pipelines |-> new_pipelines]
    /\ effects' = <<>>
    /\ UNCHANGED <<state, pc, starts_received, drains_received, drain_channel,
                   merged_operator_meta, serializer>>
    /\ UNCHANGED failing

\* SinkMsg::Disconnect
OnDisconnect(id) ==
    /\ pc = "loop"
    /\ pipelines' = SelectSeq(pipelines, LAMBDA url : url # id)
    /\ handled' = [type |-> "Disconnect", id |-> id]
    /\ effects' = <<>>
    /\ UNCHANGED <<state, pc, starts_received, drains_received, drain_channel,
                   merged_operator_meta, serializer>>
    /\ UNCHANGED failing

\* SinkMsg::Start
\* mutant: a drained sink can be started again
OnStart_AlsoWhenDrained ==
    /\ pc = "loop"
    /\ IF state \in {"Initialized", "Drained"}
       THEN /\ state' = "Running"
            /\ effects' = <<Hook("on_start")>>
       ELSE /\ UNCHANGED state
            /\ effects' = <<>>
    /\ handled' = [type |-> "Start"]
    /\ UNCHANGED <<pc, pipelines, starts_received, drains_received, drain_channel,
                   merged_operator_meta, serializer>>
    /\ UNCHANGED failing

OnStart ==
    /\ pc = "loop"
    /\ IF state = "Initialized"
       THEN /\ state' = "Running"
            /\ effects' = <<Hook("on_start")>>
       ELSE /\ UNCHANGED state
            /\ effects' = <<>>
    /\ handled' = [type |-> "Start"]
    /\ UNCHANGED <<pc, pipelines, starts_received, drains_received, drain_channel,
                   merged_operator_meta, serializer>>
    /\ UNCHANGED failing

\* mutant: Resume is not guarded by the Paused state
OnResume_Unguarded ==
    /\ pc = "loop"
    /\ state' = "Running"
    /\ effects' = <<Hook("on_resume")>>
    /\ handled' = [type |-> "Resume"]
    /\ UNCHANGED <<pc, pipelines, starts_received, drains_received, drain_channel,
                   merged_operator_meta, serializer>>
    /\ UNCHANGED failing

\* SinkMsg::Resume
OnResume ==
    /\ pc = "loop"
    /\ IF state = "Paused"
       THEN /\ state' = "Running"
            /\ effects' = <<Hook("on_resume")>>
       ELSE /\ UNCHANGED state
            /\ effects' = <<>>
    /\ handled' = [type |-> "Resume"]
    /\ UNCHANGED <<pc, pipelines, starts_received, drains_received, drain_channel,
                   merged_operator_meta, serializer>>
    /\ UNCHANGED failing

\* mutant: a paused sink is paused again
OnPause_AlsoWhenPaused ==
    /\ pc = "loop"
    /\ IF state \in {"Running", "Paused"}
       THEN /\ state' = "Paused"
            /\ effects' = <<Hook("on_pause")>>
       ELSE /\ UNCHANGED state
            /\ effects' = <<>>
    /\ handled' = [type |-> "Pause"]
    /\ UNCHANGED <<pc, pipelines, starts_received, drains_received, drain_channel,
                   merged_operator_meta, serializer>>
    /\ UNCHANGED failing

\* SinkMsg::Pause
OnPause ==
    /\ pc = "loop"
    /\ IF state = "Running"
       THEN /\ state' = "Paused"
            /\ effects' = <<Hook("on_pause")>>
       ELSE /\ UNCHANGED state
            /\ effects' = <<>>
    /\ handled' = [type |-> "Pause"]
    /\ UNCHANGED <<pc, pipelines, starts_received, drains_received, drain_channel,
                   merged_operator_meta, serializer>>
    /\ UNCHANGED failing

\* mutant: Stop does not leave the loop
OnStop_NoBreak ==
    /\ pc = "loop"
    /\ effects' = <<Hook("on_stop")>>
    /\ state' = "Stopped"
    /\ handled' = [type |-> "Stop"]
    /\ UNCHANGED <<pc, pipelines, starts_received, drains_received, drain_channel,
                   merged_operator_meta, serializer>>
    /\ UNCHANGED failing

\* SinkMsg::Stop: on_stop, state = Stopped, break
OnStop ==
    /\ pc = "loop"
    /\ effects' = <<Hook("on_stop")>>
    /\ state' = "Stopped"
    /\ pc' = "done"
    /\ handled' = [type |-> "Stop"]
    /\ UNCHANGED <<pipelines, starts_received, drains_received, drain_channel,
                   merged_operator_meta, serializer>>
    /\ UNCHANGED failing

\* mutant: quorum only when the two sets are equal
is_superset_Equal(a, b) == a = b

\* HashSet::is_superset
is_superset(a, b) == b \subseteq a

\* mutant: a Drain message to a drained sink is ignored like one to a draining sink
OnDrain_SilentWhenDrained(sender) ==
    /\ pc = "loop"
    /\ IF state = "Draining"
       THEN /\ effects' = <<>>
            /\ UNCHANGED <<state, drain_channel>>
       ELSE IF state = "Drained"
       THEN /\ effects' = <<>>
            /\ UNCHANGED <<state, drain_channel>>
       ELSE IF is_superset(drains_received, starts_received)
       THEN /\ state' = "Drained"
            /\ drain_channel' = NoChan
            /\ effects' = <<SendMsg(sender, "SourceDrained")>>
       ELSE /\ state' = "Draining"
            /\ drain_channel' = sender
            /\ effects' = <<>>
    /\ handled' = [type |-> "Drain", sender |-> sender]
    /\ UNCHANGED <<pc, pipelines, starts_received, drains_received,
                   merged_operator_meta, serializer>>
    /\ UNCHANGED failing

\* mutant: a Drain message to a draining sink replaces the retained reply channel
OnDrain_LastOwnerWins(sender) ==
    /\ pc = "loop"
    /\ IF state = "Draining"
       THEN /\ effects' = <<>>
            /\ drain_channel' = sender
            /\ UNCHANGED state
       ELSE IF state = "Drained"
       THEN /\ effects' = <<SendMsg(sender, "SinkDrained")>>
            /\ UNCHANGED <<state, drain_channel>>
       ELSE IF is_superset(drains_received, starts_received)
       THEN /\ state' = "Drained"
            /\ drain_channel' = NoChan
            /\ effects' = <<SendMsg(sender, "SourceDrained")>>
       ELSE /\ state' = "Draining"
            /\ drain_channel' = sender
            /\ effects' = <<>>
    /\ handled' = [type |-> "Drain", sender |-> sender]
    /\ UNCHANGED <<pc, pipelines, starts_received, drains_received,
                   merged_operator_meta, serializer>>
    /\ UNCHANGED failing

\* mutant: the reply channel stays retained after the immediate notification
OnDrain_KeepsChannelAtQuorum(sender) ==
    /\ pc = "loop"
    /\ IF state = "Draining"
       THEN /\ effects' = <<>>
            /\ UNCHANGED <<state, drain_channel>>
       ELSE IF state = "Drained"
       THEN /\ effects' = <<SendMsg(sender, "SinkDrained")>>
            /\ UNCHANGED <<state, drain_channel>>
       ELSE IF is_superset(drains_received, starts_received)
       THEN /\ state' = "Drained"
            /\ drain_channel' = sender
            /\ effects' = <<SendMsg(sender, "SourceDrained")>>
       ELSE /\ state' = "Draining"
            /\ drain_channel' = sender
            /\ effects' = <<>>
    /\ handled' = [type |-> "Drain", sender |-> sender]
    /\ UNCHANGED <<pc, pipelines, starts_received, drains_received,
                   merged_operator_meta, serializer>>
    /\ UNCHANGED failing

\* SinkMsg::Drain(sender): the three arms, in match order
\* mutant: the reply channel is retained but the sink does not start draining
OnDrain_RetainsWithoutDraining(sender) ==
    /\ pc = "loop"
    /\ IF state = "Draining"
       THEN /\ effects' = <<>>
            /\ UNCHANGED <<state, drain_channel>>
       ELSE IF state = "Drained"
       THEN /\ effects' = <<SendMsg(sender, "SinkDrained")>>
            /\ UNCHANGED <<state, drain_channel>>
       ELSE IF is_superset(drains_received, starts_received)
       THEN /\ state' = "Drained"
            /\ drain_channel' = NoChan
            /\ effects' = <<SendMsg(sender, "SourceDrained")>>
       ELSE /\ UNCHANGED state
            /\ drain_channel' = sender
            /\ effects' = <<>>
    /\ handled' = [type |-> "Drain", sender |-> sender]
    /\ UNCHANGED <<pc, pipelines, starts_received, drains_received,
                   merged_operator_meta, serializer>>
    /\ UNCHANGED failing

OnDrain(sender) ==
    /\ pc = "loop"
    /\ IF state = "Draining"
       THEN /\ effects' = <<>>
            /\ UNCHANGED <<state, drain_channel>>
       ELSE IF state = "Drained"
       THEN /\ effects' = <<SendMsg(sender, "SinkDrained")>>
            /\ UNCHANGED <<state, drain_channel>>
       ELSE IF is_superset(drains_received, starts_received)
       THEN /\ state' = "Drained"
            /\ drain_channel' = NoChan
            /\ effects' = <<SendMsg(sender, "SourceDrained")>>
       ELSE /\ state' = "Draining"
            /\ drain_channel' = sender
            /\ effects' = <<>>
    /\ handled' = [type |-> "Drain", sender |-> sender]
    /\ UNCHANGED <<pc, pipelines, starts_received, drains_received,
                   merged_operator_meta, serializer>>
    /\ UNCHANGED failing

\* SinkMsg::ConnectionEstablished
OnConnectionEstablished ==
    /\ pc = "loop"
    /\ effects' = send_contraflow(pipelines, cb_open(NowNs, merged_operator_meta))
    /\ handled' = [type |-> "ConnectionEstablished"]
    /\ UNCHANGED <<state, pc, pipelines, starts_received, drains_received,
                   drain_channel, merged_operator_meta, serializer>>
    /\ UNCHANGED failing

\* mutant: the per-stream state survives the loss of the connection
OnConnectionLost_KeepsStreams ==
    /\ pc = "loop"
    /\ serializer' = serializer
    /\ effects' = <<SerializerClear(DOMAIN serializer.streams)>>
                    \o send_contraflow(pipelines, cb_close(NowNs, merged_operator_meta))
    /\ handled' = [type |-> "ConnectionLost"]
    /\ UNCHANGED <<state, pc, pipelines, starts_received, drains_received,
                   drain_channel, merged_operator_meta>>
    /\ UNCHANGED failing

\* SinkMsg::ConnectionLost
OnConnectionLost ==
    /\ pc = "loop"
    /\ serializer' = clear(serializer)
    /\ effects' = <<SerializerClear(DOMAIN serializer.streams)>>
                    \o send_contraflow(pipelines, cb_close(NowNs, merged_operator_meta))
    /\ handled' = [type |-> "ConnectionLost"]
    /\ UNCHANGED <<state, pc, pipelines, starts_received, drains_received,
                   drain_channel, merged_operator_meta>>
    /\ UNCHANGED failing

\* mutant: the trail is replaced by the op_meta of the last event
merge_KeepsLast(meta, other) == other

\* OpMeta::merge
merge(meta, other) == meta \cup other

\* mutant: the automatic ack does not look at event.transactional
EventContraflow_AutoAckAlways(event, res, auto_ack, duration, pls) ==
    LET cf_builder == ContraflowBuilderFrom(event)
    IN IF res.ok
       THEN handle_replies(res.replies, duration, cf_builder, pls, auto_ack)
       ELSE IF event.transactional THEN send_contraflow(pls, into_fail(cf_builder))
       ELSE <<>>

\* mutant: an error of on_event fails the event whether it is transactional or not
EventContraflow_ErrAlwaysFails(event, res, auto_ack, duration, pls) ==
    LET cf_builder == ContraflowBuilderFrom(event)
    IN IF res.ok
       THEN handle_replies(res.replies, duration, cf_builder, pls,
                           event.transactional /\ auto_ack)
       ELSE send_contraflow(pls, into_fail(cf_builder))

\* what the Event arm sends after on_event returned `res`
\* mutant: the automatic ack does not ask Sink::auto_ack
EventContraflow_IgnoresAutoAck(event, res, auto_ack, duration, pls) ==
    LET cf_builder == ContraflowBuilderFrom(event)
        transactional == event.transactional
    IN IF res.ok
       THEN handle_replies(res.replies, duration, cf_builder, pls, transactional)
       ELSE IF transactional THEN send_contraflow(pls, into_fail(cf_builder))
       ELSE <<>>

EventContraflow(event, res, auto_ack, duration, pls) ==
    LET cf_builder == ContraflowBuilderFrom(event)
        transactional == event.transactional
    IN IF res.ok
       THEN handle_replies(res.replies, duration, cf_builder, pls,
                           transactional /\ auto_ack)
       ELSE IF transactional THEN send_contraflow(pls, into_fail(cf_builder))
       ELSE <<>>

\* mutant: only a running sink hands events to on_event, others drop them
OnEvent_OnlyWhenRunning(event, res, auto_ack, duration, calls) ==
    /\ pc = "loop"
    /\ merged_operator_meta' = merge(merged_operator_meta, event.op_meta)
    /\ serializer' = IF state = "Running" THEN ApplyCalls(serializer, calls)
                     ELSE serializer
    /\ effects' = IF state = "Running"
                  THEN <<CallSink("on_event", event.id)>>
                         \o SerializerEffects(serializer, calls)
                         \o EventContraflow(event, res, auto_ack, duration, pipelines)
                  ELSE <<>>
    /\ handled' = [type |-> "Event", event |-> event, res |-> res,
                   auto_ack |-> auto_ack, duration |-> duration, calls |-> calls]
    /\ UNCHANGED <<state, pc, pipelines, starts_received, drains_received,
                   drain_channel>>
    /\ UNCHANGED failing

\* SinkMsg::Event; res is what on_event returns, auto_ack what Sink::auto_ack
\* returns, duration is nanotime() - start, calls is what on_event does with
\* the serializer
OnEvent(event, res, auto_ack, duration, calls) ==
    /\ pc = "loop"
    /\ merged_operator_meta' = merge(merged_operator_meta, event.op_meta)
    /\ serializer' = ApplyCalls(serializer, calls)
    /\ effects' = <<CallSink("on_event", event.id)>>
                    \o SerializerEffects(serializer, calls)
                    \o EventContraflow(event, res, auto_ack, duration, pipelines)
    /\ handled' = [type |-> "Event", event |-> event, res |-> res,
                   auto_ack |-> auto_ack, duration |-> duration, calls |-> calls]
    /\ UNCHANGED <<state, pc, pipelines, starts_received, drains_received,
                   drain_channel>>
    /\ UNCHANGED failing

\* mutant: the retained drain channel is used but not taken (no Option::take)
SignalKindUpdate_KeepsChannel(signal) ==
    IF signal.kind.kind = "Drain"
    THEN LET drains == drains_received \cup {signal.kind.uid}
             all == is_superset(drains, starts_received)
             cf == into_cb(ContraflowBuilderFrom(signal), CbDrained(signal.kind.uid))
         IN [state |-> IF all THEN "Drained" ELSE state,
             starts |-> starts_received,
             drains |-> drains,
             chan |-> drain_channel,
             sent |-> (IF all /\ drain_channel # NoChan
                       THEN <<SendMsg(drain_channel, "SinkDrained")>> ELSE <<>>)
                      \o send_contraflow(pipelines, cf)]
    ELSE [state |-> state,
          starts |-> IF signal.kind.kind = "Start"
                     THEN starts_received \cup {signal.kind.uid} ELSE starts_received,
          drains |-> drains_received,
          chan |-> drain_channel,
          sent |-> <<>>]

\* mutant: the CB Drained contraflow is sent only by the signal that completes
\* the quorum
SignalKindUpdate_DrainedCbAtQuorum(signal) ==
    IF signal.kind.kind = "Drain"
    THEN LET drains == drains_received \cup {signal.kind.uid}
             all == is_superset(drains, starts_received)
             cf == into_cb(ContraflowBuilderFrom(signal), CbDrained(signal.kind.uid))
         IN [state |-> IF all THEN "Drained" ELSE state,
             starts |-> starts_received,
             drains |-> drains,
             chan |-> IF all THEN NoChan ELSE drain_channel,
             sent |-> (IF all /\ drain_channel # NoChan
                       THEN <<SendMsg(drain_channel, "SinkDrained")>> ELSE <<>>)
                      \o (IF all THEN send_contraflow(pipelines, cf) ELSE <<>>)]
    ELSE [state |-> state,
          starts |-> IF signal.kind.kind = "Start"
                     THEN starts_received \cup {signal.kind.uid} ELSE starts_received,
          drains |-> drains_received,
          chan |-> drain_channel,
          sent |-> <<>>]

\* the `match signal.kind` of the Signal arm: the new
\* <<state, starts_received, drains_received, drain_channel>> and what is sent
SignalKindUpdate(signal) ==
    IF signal.kind.kind = "Drain"
    THEN LET drains == drains_received \cup {signal.kind.uid}
             all == is_superset(drains, starts_received)
             cf == into_cb(ContraflowBuilderFrom(signal), CbDrained(signal.kind.uid))
         IN [state |-> IF all THEN "Drained" ELSE state,
             starts |-> starts_received,
             drains |-> drains,
             chan |-> IF all THEN NoChan ELSE drain_channel,
             sent |-> (IF all /\ drain_channel # NoChan
                       THEN <<SendMsg(drain_channel, "SinkDrained")>> ELSE <<>>)
                      \o send_contraflow(pipelines, cf)]
    ELSE IF signal.kind.kind = "Start"
    THEN [state |-> state,
          starts |-> starts_received \cup {signal.kind.uid},
          drains |-> drains_received,
          chan |-> drain_channel,
          sent |-> <<>>]
    ELSE [state |-> state, starts |-> starts_received, drains |-> drains_received,
          chan |-> drain_channel, sent |-> <<>>]

\* mutant: a transactional signal is acked automatically like an event
OnSignal_AutoAcks(signal, res, duration, calls) ==
    /\ pc = "loop"
    /\ serializer' = ApplyCalls(serializer, calls)
    /\ LET upd == SignalKindUpdate(signal)
       IN /\ state' = upd.state
          /\ starts_received' = upd.starts
          /\ drains_received' = upd.drains
          /\ drain_channel' = upd.chan
          /\ effects' = upd.sent
                \o <<CallSink("on_signal", signal.id)>>
                \o SerializerEffects(serializer, calls)
                \o (IF res.ok
                    THEN handle_replies(res.replies, duration,
                                        ContraflowBuilderFrom(signal), pipelines,
                                        signal.transactional)
                    ELSE <<>>)
    /\ handled' = [type |-> "Signal", signal |-> signal, res |-> res,
                   duration |-> duration, calls |-> calls]
    /\ UNCHANGED <<pc, pipelines, merged_operator_meta>>
    /\ UNCHANGED failing

\* SinkMsg::Signal; res is what on_signal returns, calls what it does with the
\* serializer
OnSignal(signal, res, duration, calls) ==
    /\ pc = "loop"
    /\ serializer' = ApplyCalls(serializer, calls)
    /\ LET upd == SignalKindUpdate(signal)
       IN /\ state' = upd.state
          /\ starts_received' = upd.starts
          /\ drains_received' = upd.drains
          /\ drain_channel' = upd.chan
          /\ effects' = upd.sent
                \o <<CallSink("on_signal", signal.id)>>
                \o SerializerEffects(serializer, calls)
                \o (IF res.ok
                    THEN handle_replies(res.replies, duration,
                                        ContraflowBuilderFrom(signal), pipelines, FALSE)
                    ELSE <<>>)
    /\ handled' = [type |-> "Signal", signal |-> signal, res |-> res,
                   duration |-> duration, calls |-> calls]
    /\ UNCHANGED <<pc, pipelines, merged_operator_meta>>
    /\ UNCHANGED failing

\* enum AsyncSinkReply { Ack(EventCfData, u64), Fail(EventCfData), CB(EventCfData, CbAction) }
EventCfData == [event_id : EventIds, ingest_ns : IngestTimes, op_meta : OpMetas]
AsyncSinkReply ==
    [tag : {"Ack"}, data : EventCfData, duration : Durations, cb : {CbNone}]
    \cup [tag : {"Fail"}, data : EventCfData, duration : {NoDuration}, cb : {CbNone}]
    \cup [tag : {"CB"}, data : EventCfData, duration : {NoDuration},
          cb : {CbClose, CbOpen}]

\* mutant: the duration of an asynchronous ack is lost
AsyncContraflow_AckWithoutTiming(reply) ==
    IF reply.tag = "Ack"
    THEN cb_ack_with_timing(reply.data.ingest_ns, reply.data.event_id,
                            reply.data.op_meta, NoDuration)
    ELSE IF reply.tag = "Fail"
    THEN cb_fail(reply.data.ingest_ns, reply.data.event_id, reply.data.op_meta)
    ELSE insight(reply.cb, reply.data.event_id, reply.data.ingest_ns, reply.data.op_meta)

AsyncContraflow(reply) ==
    IF reply.tag = "Ack"
    THEN cb_ack_with_timing(reply.data.ingest_ns, reply.data.event_id,
                            reply.data.op_meta, reply.duration)
    ELSE IF reply.tag = "Fail"
    THEN cb_fail(reply.data.ingest_ns, reply.data.event_id, reply.data.op_meta)
    ELSE insight(reply.cb, reply.data.event_id, reply.data.ingest_ns, reply.data.op_meta)

\* SinkMsgWrapper::FromSink
OnAsyncReply(reply) ==
    /\ pc = "loop"
    /\ effects' = send_contraflow(pipelines, AsyncContraflow(reply))
    /\ handled' = [type |-> "AsyncReply", reply |-> reply]
    /\ UNCHANGED <<state, pc, pipelines, starts_received, drains_received,
                   drain_channel, merged_operator_meta, serializer>>
    /\ UNCHANGED failing

\* ---------------------------------------------------------------------------
\* Spec: the actor from construction, every kind of message, each message
\* handled as it arrives (the channels hold nothing between two steps).
CtlEvents == [id : {42}, ingest_ns : IngestTimes, op_meta : {{"opA"}},
              transactional : BOOLEAN, kind : {NoKind}]
CtlSignals == [id : {DefaultEventId}, ingest_ns : IngestTimes, op_meta : {{"opA"}},
               transactional : {FALSE}, kind : SignalKind]
CtlResults == {ResultOk(<<>>), ResultOk(<<ReplyNone>>), ResultOk(<<ReplyAck>>), ResultErr}
CtlSignalResults == {ResultOk(<<>>), ResultErr}
CtlDurations == {5}
CtlConnects == {<<url>> : url \in Urls}
CtlAsync == {a \in AsyncSinkReply :
                /\ a.data.event_id = 42
                /\ a.data.op_meta = {"opA"}
                /\ a.duration \in {5, NoDuration}
                /\ a.cb # CbOpen}

Next ==
    \/ \E ps \in CtlConnects : OnConnect(ps) /\ UNCHANGED apart
    \/ \E id \in Urls : OnDisconnect(id) /\ UNCHANGED apart
    \/ OnStart /\ UNCHANGED apart
    \/ OnResume /\ UNCHANGED apart
    \/ OnPause /\ UNCHANGED apart
    \/ OnStop /\ UNCHANGED apart
    \/ \E sender \in DrainChans : OnDrain(sender) /\ UNCHANGED apart
    \/ OnConnectionEstablished /\ UNCHANGED apart
    \/ OnConnectionLost /\ UNCHANGED apart
    \/ \E event \in CtlEvents, res \in CtlResults, auto_ack \in BOOLEAN,
          d \in CtlDurations :
          OnEvent(event, res, auto_ack, d, NoCalls) /\ UNCHANGED apart
    \/ \E signal \in CtlSignals, res \in CtlSignalResults, d \in CtlDurations :
          OnSignal(signal, res, d, NoCalls) /\ UNCHANGED apart
    \/ \E reply \in CtlAsync : OnAsyncReply(reply) /\ UNCHANGED apart

Spec == Init /\ [][Next]_vars

\* ---------------------------------------------------------------------------
\* SpecEventPath: the Event arm on every event, every result of on_event and
\* every pipeline list: the sink is connected to some pipelines, one Event
\* message is in the channel, and the actor receives it.
EventMsg(event) == [type |-> "Event", event |-> event]
PipelineLists == SeqsUpTo(Urls, MaxPipelines)

InitEventPath ==
    /\ state = "Running"
    /\ pc = "loop"
    /\ pipelines \in PipelineLists
    /\ starts_received = {}
    /\ drains_received = {}
    /\ drain_channel = NoChan
    /\ merged_operator_meta = {}
    /\ serializer = build
    /\ failing = {}
    /\ hooks = <<>>
    /\ node = Started
    /\ join = NotJoining
    /\ kv = EmptyKv
    /\ rx \in {<<EventMsg(event)>> : event \in Events}
    /\ reply_rx = <<>>
    /\ handled = [type |-> "Nothing"]
    /\ effects = <<>>

RecvEvent ==
    /\ reply_rx = <<>>
    /\ rx # <<>>
    /\ Head(rx).type = "Event"
    /\ \E res \in ResultVec, auto_ack \in BOOLEAN, d \in Durations :
          OnEvent(Head(rx).event, res, auto_ack, d, NoCalls)
    /\ rx' = Tail(rx)
    /\ UNCHANGED reply_rx
    /\ UNCHANGED beside

NextEventPath == RecvEvent

SpecEventPath == InitEventPath /\ [][NextEventPath]_vars

\* ---------------------------------------------------------------------------
\* SpecChan: the actor behind its two channels.  Senders put SinkMsg into the
\* bounded control/data channel and the sink's tasks put AsyncSinkReply into
\* the reply channel; the actor takes its next message through the priority
\* merge of the two.
SimpleMsg(type) == [type |-> type]
DrainMsg(sender) == [type |-> "Drain", sender |-> sender]
SignalMsg(signal) == [type |-> "Signal", signal |-> signal]
ConnectMsg(new_pipelines) == [type |-> "Connect", pipelines |-> new_pipelines]
DisconnectMsg(id) == [type |-> "Disconnect", id |-> id]

ChanEvent == [id |-> 42, ingest_ns |-> 7, op_meta |-> {"opA"},
              transactional |-> TRUE, kind |-> NoKind]
ChanSignal(kind) == [id |-> DefaultEventId, ingest_ns |-> 7, op_meta |-> {"opA"},
                     transactional |-> FALSE, kind |-> SignalKindOf(kind, 1)]
ChanMsgs == {SimpleMsg("Start"), SimpleMsg("Pause"), SimpleMsg("Stop"),
             DrainMsg("r1"), EventMsg(ChanEvent),
             SignalMsg(ChanSignal("Start")), SignalMsg(ChanSignal("Drain"))}
ChanReplies == {a \in CtlAsync : a.tag = "Ack"}
ChanResults == {ResultOk(<<ReplyNone>>), ResultErr}

\* the `match sink_msg` of SinkMsgWrapper::ToSink
ToSink(m) ==
    CASE m.type = "Connect" -> OnConnect(m.pipelines)
      [] m.type = "Disconnect" -> OnDisconnect(m.id)
      [] m.type = "Start" -> OnStart
      [] m.type = "Resume" -> OnResume
      [] m.type = "Pause" -> OnPause
      [] m.type = "Stop" -> OnStop
      [] m.type = "Drain" -> OnDrain(m.sender)
      [] m.type = "ConnectionEstablished" -> OnConnectionEstablished
      [] m.type = "ConnectionLost" -> OnConnectionLost
      [] m.type = "Event" ->
            \E res \in ChanResults, auto_ack \in BOOLEAN, d \in CtlDurations :
                OnEvent(m.event, res, auto_ack, d, NoCalls)
      [] m.type = "Signal" ->
            \E res \in {ResultOk(<<>>)}, d \in CtlDurations :
                OnSignal(m.signal, res, d, NoCalls)

\* mutant: the control/data channel takes a message even when it is full
SendToSink_NeverWaits(m) ==
    /\ Len(rx) < QSize + 1
    /\ rx' = Append(rx, m)
    /\ UNCHANGED <<state, pc, pipelines, starts_received, drains_received,
                   drain_channel, merged_operator_meta, reply_rx, handled, effects,
                   serializer>>
    /\ UNCHANGED failing
    /\ UNCHANGED beside

\* Sender<SinkMsg>::send on the bounded channel: waits while the channel is full
SendToSink(m) ==
    /\ Len(rx) < QSize
    /\ rx' = Append(rx, m)
    /\ UNCHANGED <<state, pc, pipelines, starts_received, drains_received,
                   drain_channel, merged_operator_meta, reply_rx, handled, effects,
                   serializer>>
    /\ UNCHANGED failing
    /\ UNCHANGED beside

\* Sender<AsyncSinkReply>::send on the unbounded reply channel
SendReply(reply) ==
    /\ Len(reply_rx) < MaxReplyQueue
    /\ reply_rx' = Append(reply_rx, reply)
    /\ UNCHANGED <<state, pc, pipelines, starts_received, drains_received,
                   drain_channel, merged_operator_meta, rx, handled, effects,
                   serializer>>
    /\ UNCHANGED failing
    /\ UNCHANGED beside

\* PriorityMerge::next yields from the reply channel whenever it holds a message
RecvFromSink ==
    /\ reply_rx # <<>>
    /\ OnAsyncReply(Head(reply_rx))
    /\ reply_rx' = Tail(reply_rx)
    /\ UNCHANGED rx
    /\ UNCHANGED beside

\* mutant: the merge yields the message sent last
RecvToSink_TakesLast ==
    /\ reply_rx = <<>>
    /\ rx # <<>>
    /\ ToSink(rx[Len(rx)])
    /\ rx' = SubSeq(rx, 1, Len(rx) - 1)
    /\ UNCHANGED reply_rx
    /\ UNCHANGED beside

\* ... and from the control/data channel otherwise
RecvToSink ==
    /\ reply_rx = <<>>
    /\ rx # <<>>
    /\ ToSink(Head(rx))
    /\ rx' = Tail(rx)
    /\ UNCHANGED reply_rx
    /\ UNCHANGED beside

\* mutant: the two streams are handed to the merge in the other order
NextChan_ControlFirst ==
    \/ \E m \in ChanMsgs : SendToSink(m)
    \/ \E reply \in ChanReplies : SendReply(reply)
    \/ /\ rx = <<>>
       /\ reply_rx # <<>>
       /\ OnAsyncReply(Head(reply_rx))
       /\ reply_rx' = Tail(reply_rx)
       /\ UNCHANGED <<rx, beside>>
    \/ /\ rx # <<>>
       /\ ToSink(Head(rx))
       /\ rx' = Tail(rx)
       /\ UNCHANGED <<reply_rx, beside>>

NextChan ==
    \/ \E m \in ChanMsgs : SendToSink(m)
    \/ \E reply \in ChanReplies : SendReply(reply)
    \/ RecvFromSink
    \/ RecvToSink

SpecChan == Init /\ [][NextChan]_vars

\* ---------------------------------------------------------------------------
\* SpecDrain: the drain protocol through the control/data channel: sources
\* announce Start and Drain signals, the owner sends Drain(reply) and never
\* Stop, and the actor handles whatever is queued.
DrainSignal(kind, uid) == [id |-> DefaultEventId, ingest_ns |-> 7, op_meta |-> {"opA"},
                           transactional |-> FALSE, kind |-> SignalKindOf(kind, uid)]
DrainSources == {1, 2}
DrainProtocolMsgs ==
    {DrainMsg("r1")}
    \cup {SignalMsg(DrainSignal(k, u)) : k \in {"Start", "Drain"}, u \in DrainSources}

NextDrain ==
    \/ \E m \in DrainProtocolMsgs : SendToSink(m)
    \/ RecvToSink

\* the actor loop never stops polling: a queued message is eventually handled
SpecDrain == Init /\ [][NextDrain]_vars /\ WF_vars(RecvToSink)

\* ---------------------------------------------------------------------------
\* SpecSerializer: the sink implementation uses the serializer it is handed by
\* on_event and on_signal while the connector goes through its lifecycle and
\* loses and regains its connection.
SerializerEvent == [id |-> 42, ingest_ns |-> 7, op_meta |-> {"opA"},
                    transactional |-> FALSE, kind |-> NoKind]
SerializerSignal == [id |-> DefaultEventId, ingest_ns |-> 7, op_meta |-> {"opA"},
                     transactional |-> FALSE, kind |-> SignalKindOf("Tick", 0)]
SerializeFor(stream_id) ==
    [op |-> "serialize_for_stream", stream_id |-> stream_id, fails_at |-> "none"]
\* a stream used right after it was dropped, cleared or used
StreamReuse ==
    UNION {{<<first, SerializeFor(id)>> :
               first \in {[op |-> "drop_stream", stream_id |-> id], [op |-> "clear"],
                          SerializeFor(id)}} :
           id \in StreamIds \ {DEFAULT_STREAM_ID}}
SerializerCalls == {NoCalls} \cup {<<call>> : call \in SerializerCall} \cup StreamReuse

NextSerializer ==
    \/ OnStart /\ UNCHANGED apart
    \/ OnPause /\ UNCHANGED apart
    \/ OnResume /\ UNCHANGED apart
    \/ OnStop /\ UNCHANGED apart
    \/ OnDrain("r1") /\ UNCHANGED apart
    \/ OnConnectionEstablished /\ UNCHANGED apart
    \/ OnConnectionLost /\ UNCHANGED apart
    \/ \E calls \in SerializerCalls :
          OnEvent(SerializerEvent, ResultOk(<<>>), TRUE, 5, calls) /\ UNCHANGED apart
    \/ \E calls \in SerializerCalls :
          OnSignal(SerializerSignal, ResultOk(<<>>), 5, calls) /\ UNCHANGED apart

SpecSerializer == Init /\ [][NextSerializer]_vars

\* ---------------------------------------------------------------------------
\* SpecMeta: events and signals that differ in id and op_meta, every kind of
\* reply to them, and the connection going down and up in between.
MetaResults == {ResultOk(<<>>), ResultErr} \cup {ResultOk(<<r>>) : r \in SinkReply}
MetaSignals == [id : {DefaultEventId}, ingest_ns : IngestTimes, op_meta : OpMetas,
                transactional : {FALSE}, kind : {SignalKindOf("Drain", 1)}]
MetaSignalResults == {ResultOk(<<>>), ResultOk(<<ReplyAck>>)}

NextMeta ==
    \/ \E ps \in CtlConnects : OnConnect(ps) /\ UNCHANGED apart
    \/ OnConnectionEstablished /\ UNCHANGED apart
    \/ OnConnectionLost /\ UNCHANGED apart
    \/ \E event \in Events, res \in MetaResults, auto_ack \in BOOLEAN :
          OnEvent(event, res, auto_ack, 5, NoCalls) /\ UNCHANGED apart
    \/ \E signal \in MetaSignals, res \in MetaSignalResults :
          OnSignal(signal, res, 5, NoCalls) /\ UNCHANGED apart
    \/ \E reply \in AsyncSinkReply : OnAsyncReply(reply) /\ UNCHANGED apart

SpecMeta == Init /\ [][NextMeta]_vars

\* ---------------------------------------------------------------------------
\* SpecOrder: two pipelines' events and two async replies that can be told
\* apart, sent in every order and interleaving.
OrderEvents == [id : EventIds, ingest_ns : {7}, op_meta : {{"opA"}},
                transactional : {TRUE}, kind : {NoKind}]
OrderMsgs == {EventMsg(event) : event \in OrderEvents}
OrderReplies == {a \in AsyncSinkReply :
                    a.tag = "Ack" /\ a.data.op_meta = {"opA"} /\ a.duration = 5}

NextOrder ==
    \/ \E m \in OrderMsgs : SendToSink(m)
    \/ \E reply \in OrderReplies : SendReply(reply)
    \/ RecvFromSink
    \/ RecvToSink

SpecOrder == Init /\ [][NextOrder]_vars

\* ---------------------------------------------------------------------------
\* SpecConnection: the connection goes down and up while pipelines connect and
\* disconnect, sources start and drain, and the sink goes through its lifecycle.
NextConnection ==
    \/ \E ps \in CtlConnects : OnConnect(ps) /\ UNCHANGED apart
    \/ \E id \in Urls : OnDisconnect(id) /\ UNCHANGED apart
    \/ OnStart /\ UNCHANGED apart
    \/ OnPause /\ UNCHANGED apart
    \/ OnResume /\ UNCHANGED apart
    \/ OnStop /\ UNCHANGED apart
    \/ OnDrain("r1") /\ UNCHANGED apart
    \/ OnConnectionEstablished /\ UNCHANGED apart
    \/ OnConnectionLost /\ UNCHANGED apart
    \/ OnEvent(SerializerEvent, ResultOk(<<>>), TRUE, 5, NoCalls) /\ UNCHANGED apart
    \/ \E k \in {"Start", "Drain"} :
          OnSignal(DrainSignal(k, 1), ResultOk(<<>>), 5, NoCalls) /\ UNCHANGED apart

SpecConnection == Init /\ [][NextConnection]_vars

\* ---------------------------------------------------------------------------
\* SpecStates: the lifecycle, the drain protocol and the data path together:
\* every lifecycle message, Drain from two owners, events and signals of every
\* kind, transactional or not, with every kind of answer of the sink.
StateSignals == [id : {DefaultEventId}, ingest_ns : {7}, op_meta : {{"opA"}},
                 transactional : BOOLEAN, kind : SignalKind]
StateSignalResults == {ResultOk(<<>>), ResultOk(<<ReplyNone>>), ResultOk(<<ReplyAck>>),
                       ResultErr}
StateEventResults == {ResultOk(<<ReplyNone>>), ResultOk(<<ReplyAck>>), ResultErr}

NextStates ==
    \/ OnStart /\ UNCHANGED apart
    \/ OnPause /\ UNCHANGED apart
    \/ OnResume /\ UNCHANGED apart
    \/ OnStop /\ UNCHANGED apart
    \/ \E sender \in DrainChans : OnDrain(sender) /\ UNCHANGED apart
    \/ \E event \in CtlEvents, res \in StateEventResults, auto_ack \in BOOLEAN :
          OnEvent(event, res, auto_ack, 5, NoCalls) /\ UNCHANGED apart
    \/ \E signal \in StateSignals, res \in StateSignalResults :
          OnSignal(signal, res, 5, NoCalls) /\ UNCHANGED apart

SpecStates == Init /\ [][NextStates]_vars

\* ===========================================================================
\* Properties
\* ===========================================================================
\* reading `effects`
Fanouts(eff) == SelectSeq(eff, LAMBDA x : x.e = "send_contraflow")
Insights(eff) == SelectSeq(eff, LAMBDA x : x.e = "send_insight")
Occurrences(seq, x) == Cardinality({i \in DOMAIN seq : seq[i] = x})
\* how many times send_insight(cf) was called on the pipeline `url`
Received(eff, url, cf) ==
    Cardinality({i \in DOMAIN eff :
                    /\ eff[i].e = "send_insight"
                    /\ eff[i].to = url
                    /\ eff[i].cf = cf})
\* how many contraflow events with this action and event id were emitted
Emitted(eff, cb, id) ==
    Cardinality({i \in DOMAIN eff :
                    /\ eff[i].e = "send_contraflow"
                    /\ eff[i].cf.cb = cb
                    /\ eff[i].cf.id = id})
Entries(replies, tag) == Cardinality({i \in DOMAIN replies : replies[i].tag = tag})

EventHandled == handled.type = "Event"

\* the ack / fail contraflow of the event handled last
OwnAck ==
    [cb |-> CbAck, id |-> handled.event.id, ingest_ns |-> handled.event.ingest_ns,
     op_meta |-> handled.event.op_meta, duration |-> handled.duration]
OwnFail ==
    [cb |-> CbFail, id |-> handled.event.id, ingest_ns |-> handled.event.ingest_ns,
     op_meta |-> handled.event.op_meta, duration |-> NoDuration]

\* C1: for a transactional event handled with auto_ack() = true and a reply
\* vector without CB replies, exactly one Ack or Fail contraflow with the event's
\* id is emitted.
C1_ExactlyOneAckOrFail ==
    (/\ EventHandled
     /\ handled.event.transactional
     /\ handled.auto_ack
     /\ handled.res.ok
     /\ Entries(handled.res.replies, "CB") = 0)
    => Emitted(effects, CbAck, handled.event.id)
         + Emitted(effects, CbFail, handled.event.id) = 1

\* C2: a transactional event, auto_ack() = true and on_event returning Ok with
\* an empty reply vector: every connected pipeline receives exactly one Ack
\* carrying the event's id and op_meta.
C2_EmptyRepliesAutoAck ==
    (/\ EventHandled
     /\ handled.event.transactional
     /\ handled.auto_ack
     /\ handled.res = ResultOk(<<>>))
    => \A url \in Urls :
          Received(effects, url, OwnAck) = Occurrences(pipelines, url)

\* C3: a non-empty reply vector of None entries only: exactly one Ack
\* contraflow is emitted when send_auto_ack (transactional and auto_ack()) is
\* true, and none when it is false.
AllNone(replies) == replies # <<>> /\ Entries(replies, "None") = Len(replies)

C3_AllNoneAutoAck ==
    (EventHandled /\ handled.res.ok /\ AllNone(handled.res.replies))
    => Fanouts(effects) =
          IF handled.event.transactional /\ handled.auto_ack
          THEN <<Fanout(OwnAck)>> ELSE <<>>

C3_Witness ==
    /\ EventHandled
    /\ handled.res.ok
    /\ AllNone(handled.res.replies)
    /\ Len(handled.res.replies) >= 2
    /\ handled.event.transactional
    /\ handled.auto_ack
    /\ Len(pipelines) = 2
    /\ Len(Insights(effects)) = 2

\* C4: for a non-transactional event, whatever auto_ack() returns and whether
\* on_event returns Ok or Err, the Ack and Fail contraflow emitted are exactly
\* the Ack and Fail entries of the reply vector: none without such an entry.
C4_NonTransactionalOnlyExplicit ==
    (EventHandled /\ ~handled.event.transactional)
    => /\ Emitted(effects, CbAck, handled.event.id)
            = Entries(handled.res.replies, "Ack")
       /\ Emitted(effects, CbFail, handled.event.id)
            = Entries(handled.res.replies, "Fail")

C4_Witness ==
    /\ EventHandled
    /\ ~handled.event.transactional
    /\ handled.auto_ack
    /\ handled.res.ok
    /\ AllNone(handled.res.replies)
    /\ pipelines # <<>>
    /\ Fanouts(effects) = <<>>

\* C5: when on_event returns Err, a transactional event is failed once on every
\* binding of the pipeline list and not acked, a non-transactional event
\* produces no contraflow, and in both cases the state, the pipeline list and
\* the drain sets stay as they were and the loop goes on.
C5_ErrStep ==
    (handled'.type = "Event" /\ ~handled'.res.ok)
    => /\ state' = state
       /\ pipelines' = pipelines
       /\ starts_received' = starts_received
       /\ drains_received' = drains_received
       /\ pc' = "loop"
       /\ IF handled'.event.transactional
          THEN /\ \A url \in Urls :
                     Received(effects', url,
                              [cb |-> CbFail, id |-> handled'.event.id,
                               ingest_ns |-> handled'.event.ingest_ns,
                               op_meta |-> handled'.event.op_meta,
                               duration |-> NoDuration])
                       = Occurrences(pipelines, url)
               /\ Len(Insights(effects')) = Len(pipelines)
               /\ Len(Fanouts(effects')) = 1
          ELSE /\ Insights(effects') = <<>>
               /\ Fanouts(effects') = <<>>

Lifecycle(msg, from, to, hook) ==
    handled'.type = msg
    => IF state = from
       THEN state' = to /\ effects' = <<Hook(hook)>>
       ELSE state' = state /\ effects' = <<>>

C6_Step ==
    /\ Lifecycle("Start", "Initialized", "Running", "on_start")
    /\ Lifecycle("Pause", "Running", "Paused", "on_pause")
    /\ Lifecycle("Resume", "Paused", "Running", "on_resume")

C6_LifecycleTransitions == [][C6_Step]_vars

C6_Witness ==
    /\ handled.type = "Resume"
    /\ state = "Draining"
    /\ effects = <<>>

\* C7: Stop, in whatever state, calls on_stop, sets the state to Stopped and
\* ends the loop; from then on the state stays Stopped, nothing is taken from
\* either channel and nothing more is called or sent.
IsPrefix(s, t) == Len(s) <= Len(t) /\ SubSeq(t, 1, Len(s)) = s

C7_Step ==
    /\ handled'.type = "Stop"
       => state' = "Stopped" /\ pc' = "done" /\ effects' = <<Hook("on_stop")>>
    /\ state = "Stopped"
       => /\ state' = "Stopped"
          /\ pc' = "done"
          /\ handled' = handled
          /\ effects' = effects
          /\ IsPrefix(rx, rx')
          /\ IsPrefix(reply_rx, reply_rx')
          /\ UNCHANGED <<pipelines, starts_received, drains_received,
                         drain_channel, merged_operator_meta>>

C7_StopIsTerminal == [][C7_Step]_vars

C7_Witness ==
    /\ state = "Stopped"
    /\ handled.type = "Stop"
    /\ rx # <<>>
    /\ reply_rx # <<>>
    /\ drain_channel # NoChan

\* C8: the sink becomes Drained only once a Drain(reply) message has been
\* received (so only from Draining, or while that message is handled) and the
\* started sources are all drained.
C8_Step ==
    (state # "Drained" /\ state' = "Drained")
    => /\ state = "Draining" \/ handled'.type = "Drain"
       /\ starts_received' \subseteq drains_received'

C8_DrainedOnlyAfterDrainMsg == [][C8_Step]_vars

\* C9: whenever the state is Drained, every uid of starts_received is in
\* drains_received.
C9_DrainedImpliesQuorum ==
    state = "Drained" => starts_received \subseteq drains_received

\* C10: every message sent on a drain reply channel is SinkDrained.
C10_AlwaysSinkDrained ==
    \A i \in DOMAIN effects :
        effects[i].e = "send" => effects[i].msg = "SinkDrained"

\* C11: while a drain reply channel is retained nothing is sent on it until a
\* Drain signal makes drains_received a superset of starts_received; that
\* signal sends exactly one message on it and clears it, and a signal handled
\* while no channel is retained sends nothing.
Sends(eff) == SelectSeq(eff, LAMBDA x : x.e = "send")
DrainSignalStep == handled'.type = "Signal" /\ handled'.signal.kind.kind = "Drain"

C11_Step ==
    /\ drain_channel # NoChan
       => IF /\ DrainSignalStep
             /\ starts_received \subseteq drains_received \cup {handled'.signal.kind.uid}
          THEN /\ Sends(effects') = <<SendMsg(drain_channel, "SinkDrained")>>
               /\ drain_channel' = NoChan
               /\ state' = "Drained"
          ELSE /\ Sends(effects') = <<>>
               /\ drain_channel' = drain_channel
    /\ (drain_channel = NoChan /\ handled'.type = "Signal")
       => Sends(effects') = <<>>

C11_OneNotificationAtQuorum == [][C11_Step]_vars

C11_Witness ==
    /\ handled.type = "Signal"
    /\ handled.signal.kind.kind = "Drain"
    /\ state = "Drained"
    /\ Cardinality(starts_received) >= 2
    /\ drain_channel = NoChan
    /\ Sends(effects) = <<SendMsg("r2", "SinkDrained")>>

\* C12: once a Drain(reply) message was accepted, if every uid received in a
\* Start signal is eventually received in a Drain signal, the sink eventually is
\* Drained with a notification sent on the reply channel (no Stop is ever sent
\* in SpecDrain); Start signals arriving after the Drain message included.
DrainsFollowStarts ==
    \A u \in Uids : [](u \in starts_received => <>(u \in drains_received))
DrainAccepted == handled.type = "Drain" /\ state \in {"Draining", "Drained"}
DrainNotified == state = "Drained" /\ Sends(effects) # <<>>

C12_DrainLiveness ==
    DrainsFollowStarts => [](DrainAccepted => <>DrainNotified)

\* a source announced itself after the Drain message, and the drain completed
C12_Witness ==
    /\ DrainNotified
    /\ handled.type = "Signal"
    /\ Cardinality(starts_received) >= 2
    /\ drains_received = starts_received

\* C13: right after ConnectionLost is handled the serializer holds no
\* per-stream entry, in every lifecycle state and whatever streams existed.
C13_NoStreamsAfterConnectionLost ==
    handled.type = "ConnectionLost" => DOMAIN serializer.streams = {}

\* a ConnectionLost that found two streams, handled by a paused sink
C13_Witness ==
    /\ handled.type = "ConnectionLost"
    /\ state = "Paused"
    /\ \E i \in 1..Len(effects) :
          effects[i].e = "clear" /\ Cardinality(effects[i].dropped) >= 2
    /\ DOMAIN serializer.streams = {}

\* C14: ConnectionLost sends one CB Close, and ConnectionEstablished one CB
\* Open, to every binding of the pipeline list and nothing else; neither changes
\* the lifecycle state, the pipeline list or the drain sets.
OneToEach(eff, pls, cb) ==
    /\ Len(Fanouts(eff)) = 1
    /\ Len(Insights(eff)) = Len(pls)
    /\ \A i \in DOMAIN eff : eff[i].e \in {"send_contraflow", "send_insight"}
                                => eff[i].cf.cb = cb
    /\ \A url \in Urls :
          Cardinality({i \in DOMAIN eff : eff[i].e = "send_insight" /\ eff[i].to = url})
             = Occurrences(pls, url)

C14_Step ==
    /\ handled'.type = "ConnectionLost" => OneToEach(effects', pipelines, CbClose)
    /\ handled'.type = "ConnectionEstablished" => OneToEach(effects', pipelines, CbOpen)
    /\ handled'.type \in {"ConnectionLost", "ConnectionEstablished"}
       => UNCHANGED <<state, pc, pipelines, starts_received, drains_received,
                      drain_channel>>

Contraflows(eff) ==
    {eff[i].cf : i \in {j \in DOMAIN eff : eff[j].e \in {"send_contraflow", "send_insight"}}}
CarriesOrigin(cf, id, ingest_ns, op_meta) ==
    cf.id = id /\ cf.ingest_ns = ingest_ns /\ cf.op_meta = op_meta

C15_Step ==
    /\ handled'.type = "Event"
       => /\ \A cf \in Contraflows(effects') :
                CarriesOrigin(cf, handled'.event.id, handled'.event.ingest_ns,
                              handled'.event.op_meta)
          /\ merged_operator_meta' = merged_operator_meta \cup handled'.event.op_meta
    /\ handled'.type = "Signal"
       => \A cf \in Contraflows(effects') :
             CarriesOrigin(cf, handled'.signal.id, handled'.signal.ingest_ns,
                           handled'.signal.op_meta)
    /\ handled'.type = "AsyncReply"
       => \A cf \in Contraflows(effects') :
             CarriesOrigin(cf, handled'.reply.data.event_id,
                           handled'.reply.data.ingest_ns, handled'.reply.data.op_meta)
    /\ handled'.type \in {"ConnectionLost", "ConnectionEstablished"}
       => \A cf \in Contraflows(effects') : cf.op_meta = merged_operator_meta
    /\ handled'.type # "Event" => merged_operator_meta' = merged_operator_meta

C15_OpMetaOfContraflow == merged_operator_meta = {} /\ [][C15_Step]_vars

\* a transactional event whose on_event returned Err was failed to a pipeline,
\* after an event with another op_meta
C15_Witness ==
    /\ handled.type = "Event"
    /\ ~handled.res.ok
    /\ handled.event.transactional
    /\ merged_operator_meta = {"opA", "opB"}
    /\ Insights(effects) # <<>>

\* C16 as stated: every contraflow handed to send_contraflow reaches each
\* pipeline of the list exactly once and no other pipeline, for every list that
\* Connect and Disconnect build, a pipeline connected twice included.
FanoutCount(eff, cf) == Cardinality({i \in DOMAIN eff : eff[i] = Fanout(cf)})
Connected == {pipelines[i] : i \in DOMAIN pipelines}

C16_OncePerPipeline ==
    \A cf \in Contraflows(effects), url \in Urls :
        Received(effects, url, cf)
           = IF url \in Connected THEN FanoutCount(effects, cf) ELSE 0

\* C16 amended: every contraflow handed to send_contraflow is sent once per
\* binding of the list: a pipeline that was connected k times since its last
\* Disconnect receives it k times, and nobody receives it when the list is empty.
C16_OncePerBinding ==
    \A cf \in Contraflows(effects), url \in Urls :
        Received(effects, url, cf) = Occurrences(pipelines, url) * FanoutCount(effects, cf)

\* a contraflow fanned out after the same pipeline was connected twice
C16_Witness ==
    /\ Len(pipelines) = 2
    /\ pipelines[1] = pipelines[2]
    /\ \E cf \in Contraflows(effects) : Received(effects, pipelines[1], cf) = 2

\* C17: a dequeue made while both channels hold a message takes the head of the
\* async reply channel and leaves the control/data channel as it is: the reply is
\* fanned out while the event sent alongside it still waits for on_event.
Dequeue == Len(rx') < Len(rx) \/ Len(reply_rx') < Len(reply_rx)

C17_Step ==
    (rx # <<>> /\ reply_rx # <<>> /\ Dequeue)
    => /\ reply_rx' = Tail(reply_rx)
       /\ rx' = rx
       /\ handled' = [type |-> "AsyncReply", reply |-> Head(reply_rx)]
       /\ Fanouts(effects') = <<Fanout(AsyncContraflow(Head(reply_rx)))>>
       /\ \A i \in DOMAIN effects' : effects'[i].e # "on_event"

C17_ReplyChannelFirst == [][C17_Step]_vars

\* an async Ack was fanned out while an event waits in a full control/data
\* channel
C17_Witness ==
    /\ handled.type = "AsyncReply"
    /\ handled.reply.tag = "Ack"
    /\ Len(rx) = QSize
    /\ \E i \in DOMAIN rx : rx[i].type = "Event"
    /\ Emitted(effects, CbAck, handled.reply.data.event_id) = 1

\* C18: handling a transactional event with auto_ack() = false and on_event
\* returning [None] emits no contraflow, no handler other than the Event arm and
\* the async reply arm emits a contraflow with an event's id, and handling
\* AsyncSinkReply::Ack(template, d) emits exactly one contraflow: an Ack with the
\* template's event_id, ingest_ns and op_meta and the duration d.
DeferredEvent ==
    /\ handled.type = "Event"
    /\ handled.event.transactional
    /\ ~handled.auto_ack
    /\ handled.res = ResultOk(<<ReplyNone>>)

C18_DeferredAck ==
    /\ DeferredEvent => Fanouts(effects) = <<>> /\ Insights(effects) = <<>>
    /\ handled.type \notin {"Event", "AsyncReply"}
       => \A cf \in Contraflows(effects) : cf.id \notin EventIds
    /\ (handled.type = "AsyncReply" /\ handled.reply.tag = "Ack")
       => Fanouts(effects)
            = <<Fanout([cb |-> CbAck, id |-> handled.reply.data.event_id,
                        ingest_ns |-> handled.reply.data.ingest_ns,
                        op_meta |-> handled.reply.data.op_meta,
                        duration |-> handled.reply.duration])>>

\* the event was handed to on_event, nothing was emitted for it, and its async
\* reply waits in the reply channel
C18_Witness ==
    /\ DeferredEvent
    /\ effects = <<CallSink("on_event", handled.event.id)>>
    /\ reply_rx # <<>>
    /\ Head(reply_rx).tag = "Ack"
    /\ Head(reply_rx).data.event_id = handled.event.id

\* C19: on each channel a send puts its message behind those waiting and a
\* dequeue hands the oldest waiting message to its handler, whatever the other
\* channel holds: both channels are handled in the order of their sends.
SentLast(q, q2) == Len(q2) = Len(q) + 1 /\ SubSeq(q2, 1, Len(q)) = q
HandledIs(m) ==
    /\ handled'.type = m.type
    /\ m.type = "Event" => handled'.event = m.event
    /\ m.type = "Signal" => handled'.signal = m.signal
    /\ m.type = "Drain" => handled'.sender = m.sender

C19_Step ==
    /\ rx' # rx
       => \/ SentLast(rx, rx') /\ handled' = handled
          \/ rx # <<>> /\ rx' = Tail(rx) /\ HandledIs(Head(rx))
    /\ reply_rx' # reply_rx
       => \/ SentLast(reply_rx, reply_rx') /\ handled' = handled
          \/ /\ reply_rx # <<>>
             /\ reply_rx' = Tail(reply_rx)
             /\ handled' = [type |-> "AsyncReply", reply |-> Head(reply_rx)]
    /\ handled' # handled => rx' # rx \/ reply_rx' # reply_rx

C19_ChannelOrder == [][C19_Step]_vars

\* the older of two different events was handled, the younger one waits, and
\* two different replies wait in the order of their sends
C19_Witness ==
    /\ handled.type = "Event"
    /\ rx # <<>>
    /\ Head(rx).type = "Event"
    /\ Head(rx).event.id # handled.event.id
    /\ Len(reply_rx) = 2
    /\ reply_rx[1] # reply_rx[2]

\* C20: the control/data channel never holds more than qsize messages, a send
\* on it can proceed exactly when it holds fewer, and a send on the async reply
\* channel can proceed whatever the control/data channel holds (as long as the
\* reply channel is within the length the model explores).
C20_Backpressure ==
    /\ Len(rx) <= QSize
    /\ \A m \in ChanMsgs : (ENABLED SendToSink(m)) <=> Len(rx) < QSize
    /\ \A reply \in ChanReplies :
          Len(reply_rx) < MaxReplyQueue => ENABLED SendReply(reply)

\* the control/data channel is full, a reply is queued and another can be sent
C20_Witness ==
    /\ Len(rx) = QSize
    /\ Len(reply_rx) = 1
    /\ \A m \in ChanMsgs : ~ENABLED SendToSink(m)
    /\ \E reply \in ChanReplies : ENABLED SendReply(reply)

\* C21 as stated: the per-stream map never has an entry for stream 0, and a
\* stream other than 0 has an entry exactly when serialize_for_stream was called
\* for it since the last drop_stream of it or clear: the map starts empty, every
\* such call leaves an entry, drop_stream and clear (ConnectionLost included)
\* remove it, and nothing else changes the map.
StreamsOf(ser) == DOMAIN ser.streams
TheCall == handled'.calls[1]
SinkCalled(op) ==
    /\ handled'.type \in {"Event", "Signal"}
    /\ Len(handled'.calls) = 1
    /\ TheCall.op = op
MapChangesOnlyByCalls ==
    /\ DEFAULT_STREAM_ID \notin StreamsOf(serializer')
    /\ SinkCalled("drop_stream")
       => StreamsOf(serializer') = StreamsOf(serializer) \ {TheCall.stream_id}
    /\ (SinkCalled("clear") \/ handled'.type = "ConnectionLost")
       => StreamsOf(serializer') = {}
    /\ SinkCalled("serialize")
       => StreamsOf(serializer') = StreamsOf(serializer)
    /\ (handled'.type \in {"Event", "Signal"} /\ handled'.calls = NoCalls)
       => StreamsOf(serializer') = StreamsOf(serializer)
    /\ handled'.type \notin {"Event", "Signal", "ConnectionLost"}
       => StreamsOf(serializer') = StreamsOf(serializer)

C21_StepAsStated ==
    /\ MapChangesOnlyByCalls
    /\ (SinkCalled("serialize_for_stream") /\ TheCall.stream_id # DEFAULT_STREAM_ID)
       => StreamsOf(serializer') = StreamsOf(serializer) \cup {TheCall.stream_id}
    /\ (SinkCalled("serialize_for_stream") /\ TheCall.stream_id = DEFAULT_STREAM_ID)
       => StreamsOf(serializer') = StreamsOf(serializer)

C21_Step ==
    /\ MapChangesOnlyByCalls
    /\ (SinkCalled("serialize_for_stream") /\ TheCall.stream_id # DEFAULT_STREAM_ID)
       => StreamsOf(serializer')
            = IF TheCall.fails_at = "resolve"
              THEN StreamsOf(serializer)
              ELSE StreamsOf(serializer) \cup {TheCall.stream_id}
    /\ (SinkCalled("serialize_for_stream") /\ TheCall.stream_id = DEFAULT_STREAM_ID)
       => StreamsOf(serializer') = StreamsOf(serializer)

Encodes(eff) == SelectSeq(eff, LAMBDA x : x.e = "encode")
ReusedStream == handled'.calls[2].stream_id

C22_Step ==
    /\ (handled'.type \in {"Event", "Signal"} /\ handled'.calls \in StreamReuse)
       => LET enc == Encodes(effects')
          IN IF handled'.calls[1].op \in {"drop_stream", "clear"}
             THEN enc = <<Encode(ReusedStream, Fresh)>>
             ELSE /\ Len(enc) = 2
                  /\ enc[2] = Encode(ReusedStream, Used)
    /\ (SinkCalled("serialize_for_stream") /\ TheCall.stream_id # DEFAULT_STREAM_ID
          /\ TheCall.fails_at # "resolve")
       => Encodes(effects')
            = <<Encode(TheCall.stream_id,
                       IF TheCall.stream_id \in StreamsOf(serializer)
                       THEN Used ELSE Fresh)>>

C22_FreshAfterDrop == [][C22_Step]_vars

\* stream 1 was dropped and used again in one on_event, stream 2 kept its entry
C22_Witness ==
    /\ handled.type = "Event"
    /\ handled.calls = <<[op |-> "drop_stream", stream_id |-> 1], SerializeFor(1)>>
    /\ Encodes(effects) = <<Encode(1, Fresh)>>
    /\ StreamsOf(serializer) = {1, 2}

\* C23: for a reply vector with at least one reply other than None, the number
\* of contraflow fan-outs is the number of replies other than None, wherever the
\* None entries are and whatever send_auto_ack is.
NonNone(replies) == Cardinality({i \in DOMAIN replies : replies[i].tag # "None"})

C23_OneFanoutPerReply ==
    (EventHandled /\ handled.res.ok /\ NonNone(handled.res.replies) > 0)
    => Len(Fanouts(effects)) = NonNone(handled.res.replies)

\* C24: a Drain(reply) message handled in state Drained sends exactly one
\* SinkDrained on its own reply channel and changes neither the state, nor the
\* drain sets, nor the retained channel; so every such message is answered.
DrainMsgStep == handled'.type = "Drain"

C24_Step ==
    (DrainMsgStep /\ state = "Drained")
    => /\ effects' = <<SendMsg(handled'.sender, "SinkDrained")>>
       /\ state' = "Drained"
       /\ UNCHANGED <<starts_received, drains_received, drain_channel>>

C24_DrainWhileDrained == [][C24_Step]_vars

\* the owner r2 asked a sink that sources had drained before, and was answered
C24_Witness ==
    /\ handled = [type |-> "Drain", sender |-> "r2"]
    /\ state = "Drained"
    /\ drains_received # {}
    /\ effects = <<SendMsg("r2", "SinkDrained")>>

\* C25: a Drain(reply) message handled in state Draining changes nothing and
\* sends nothing, and its reply channel is not sent to later either: a step sends
\* only on the channel that was retained before it or on the channel of the Drain
\* message it handles outside Draining.
C25_Step ==
    /\ (DrainMsgStep /\ state = "Draining")
       => /\ effects' = <<>>
          /\ UNCHANGED <<state, starts_received, drains_received, drain_channel>>
    /\ \A i \in DOMAIN effects' :
          effects'[i].e = "send"
          => \/ handled'.type = "Signal" /\ effects'[i].chan = drain_channel
             \/ /\ DrainMsgStep
                /\ state # "Draining"
                /\ effects'[i].chan = handled'.sender

C25_DrainWhileDraining == [][C25_Step]_vars

\* the owner r2 asked a sink that is draining for r1
C25_Witness ==
    /\ handled = [type |-> "Drain", sender |-> "r2"]
    /\ state = "Draining"
    /\ drain_channel = "r1"
    /\ effects = <<>>

\* C26: a Drain(reply) message handled in Initialized, Running or Paused leaves
\* that state: for Draining with reply retained and nothing sent when a started
\* uid has not drained, for Drained with one notification on reply and nothing
\* retained when every started uid has drained or none ever started.
C26_Step ==
    (DrainMsgStep /\ state \in {"Initialized", "Running", "Paused"})
    => IF starts_received \subseteq drains_received
       THEN /\ state' = "Drained"
            /\ drain_channel' = NoChan
            /\ Len(Sends(effects')) = 1
            /\ Sends(effects')[1].chan = handled'.sender
       ELSE /\ state' = "Draining"
            /\ drain_channel' = handled'.sender
            /\ effects' = <<>>

C26_DrainLeavesState == [][C26_Step]_vars

\* no source ever started: the Drain message was answered at once
C26_Witness ==
    /\ handled.type = "Drain"
    /\ state = "Drained"
    /\ starts_received = {}
    /\ drains_received = {}
    /\ drain_channel = NoChan
    /\ Len(Sends(effects)) = 1
    /\ Sends(effects)[1].chan = handled.sender

\* C27: every Drain(uid) signal handled, whether it completes the quorum or
\* not and whether a reply channel is retained or not, fans out exactly one CB
\* Drained(uid) contraflow with the signal's id, ingest_ns and op_meta, after
\* the drain notification (if one is sent) and before on_signal is called.
DrainSignalHandled == handled.type = "Signal" /\ handled.signal.kind.kind = "Drain"
DrainedCb ==
    Fanout([cb |-> CbDrained(handled.signal.kind.uid), id |-> handled.signal.id,
            ingest_ns |-> handled.signal.ingest_ns, op_meta |-> handled.signal.op_meta,
            duration |-> NoDuration])
Positions(eff, x) == {i \in DOMAIN eff : eff[i] = x}
DrainedCbs == {i \in DOMAIN effects : effects[i].e = "send_contraflow"
                                      /\ effects[i].cf.cb.action = "Drained"}

C27_DrainedCbPerDrainSignal ==
    DrainSignalHandled
    => /\ Cardinality(DrainedCbs) = 1
       /\ DrainedCbs = Positions(effects, DrainedCb)
       /\ \A i \in DrainedCbs, j \in DOMAIN effects :
             /\ effects[j].e = "send" => j < i
             /\ effects[j].e = "on_signal" => i < j

\* a Drain signal that left a started source undrained: no quorum, no
\* notification, still one CB Drained before on_signal
C27_Witness ==
    /\ DrainSignalHandled
    /\ state = "Draining"
    /\ drain_channel # NoChan
    /\ ~(starts_received \subseteq drains_received)
    /\ Cardinality(DrainedCbs) = 1

\* C28 as stated: every signal handled is passed to on_signal once; an empty
\* or all-None answer emits no contraflow, also for a transactional signal; when
\* on_signal returns Err no contraflow is emitted and the state is unchanged.
SignalStep == handled'.type = "Signal"
OnSignalCalls(eff) == {i \in DOMAIN eff : eff[i].e = "on_signal"}
NothingToSay(res) ==
    ~res.ok \/ \A i \in DOMAIN res.replies : res.replies[i].tag = "None"

C28_StepAsStated ==
    SignalStep
    => /\ Cardinality(OnSignalCalls(effects')) = 1
       /\ NothingToSay(handled'.res) => Fanouts(effects') = <<>>
       /\ ~handled'.res.ok => state' = state

C28_SignalsAsStated == [][C28_StepAsStated]_vars

\* C28 amended: every signal handled is passed to on_signal once; after an
\* empty or all-None answer, or Err, nothing follows the call of on_signal (no
\* automatic ack, also for a transactional signal), and the state, the drain sets
\* and the retained channel are what the kind of the signal alone made them: a
\* Drain signal has fanned out its CB Drained and may have set Drained before
\* on_signal was called, whatever on_signal returns.
QuorumBy(uid) == starts_received \subseteq drains_received \cup {uid}

C28_Step ==
    SignalStep
    => LET kind == handled'.signal.kind
           completes == kind.kind = "Drain" /\ QuorumBy(kind.uid)
       IN /\ Cardinality(OnSignalCalls(effects')) = 1
          /\ NothingToSay(handled'.res)
             => /\ effects'[Len(effects')].e = "on_signal"
                /\ Len(Fanouts(effects')) = IF kind.kind = "Drain" THEN 1 ELSE 0
          /\ state' = IF completes THEN "Drained" ELSE state
          /\ drain_channel' = IF completes THEN NoChan ELSE drain_channel
          /\ starts_received'
               = IF kind.kind = "Start" THEN starts_received \cup {kind.uid}
                 ELSE starts_received
          /\ drains_received'
               = IF kind.kind = "Drain" THEN drains_received \cup {kind.uid}
                 ELSE drains_received

C28_SignalsToSink == [][C28_Step]_vars

\* on_signal returned Err for the transactional Drain signal that completed the
\* quorum of a draining sink
C28_Witness ==
    /\ DrainSignalHandled
    /\ handled.signal.transactional
    /\ ~handled.res.ok
    /\ state = "Drained"
    /\ Sends(effects) # <<>>
    /\ effects[Len(effects)].e = "on_signal"

\* C29: an Event message is passed to on_event, and the answer turned into
\* contraflow, in every lifecycle state; handling it changes neither the state
\* nor the drain sets.
EventStep == handled'.type = "Event"

C29_Step ==
    EventStep
    => /\ Occurrences(effects', CallSink("on_event", handled'.event.id)) = 1
       /\ handled'.res = ResultOk(<<ReplyAck>>)
          => Emitted(effects', CbAck, handled'.event.id) = 1
       /\ (~handled'.res.ok /\ handled'.event.transactional)
          => Emitted(effects', CbFail, handled'.event.id) = 1
       /\ UNCHANGED <<state, pc, starts_received, drains_received, drain_channel>>

C29_EventsInEveryState == [][C29_Step]_vars

\* a paused sink was handed an event and acked it
C29_Witness ==
    /\ EventHandled
    /\ state = "Paused"
    /\ handled.res = ResultOk(<<ReplyAck>>)
    /\ effects[1] = CallSink("on_event", handled.event.id)
    /\ Emitted(effects, CbAck, handled.event.id) = 1

\* ------------------------------------------------- failing pipeline sends
\* the pipelines whose address rejects send_insight change: what the
\* `if let Err(e) = addr.send_insight(..)` of send_contraflow is going to see
PipelineFails(urls) ==
    /\ pc = "loop"
    /\ failing' = urls
    /\ handled' = [type |-> "Nothing"]
    /\ effects' = <<>>
    /\ UNCHANGED <<state, pc, pipelines, starts_received, drains_received,
                   drain_channel, merged_operator_meta, serializer, rx, reply_rx>>
    /\ UNCHANGED beside

InsightEvents == [id : {42}, ingest_ns : {7}, op_meta : {{"opA"}},
                  transactional : {TRUE}, kind : {NoKind}]
InsightResults == {ResultOk(<<ReplyAck>>), ResultOk(<<ReplyNone, ReplyFail>>), ResultErr}

NextInsight ==
    \/ \E url \in Urls : OnConnect(<<url>>) /\ UNCHANGED apart
    \/ \E id \in Urls : OnDisconnect(id) /\ UNCHANGED apart
    \/ \E urls \in SUBSET Urls : PipelineFails(urls)
    \/ OnStart /\ UNCHANGED apart
    \/ OnStop /\ UNCHANGED apart
    \/ OnConnectionLost /\ UNCHANGED apart
    \/ \E event \in InsightEvents, res \in InsightResults :
          OnEvent(event, res, TRUE, 5, NoCalls) /\ UNCHANGED apart
    \/ OnSignal(DrainSignal("Drain", 1), ResultOk(<<>>), 5, NoCalls) /\ UNCHANGED apart

SpecInsight == Init /\ [][NextInsight]_vars

\* C30: when send_insight fails for a binding during a fan-out, the failure is
\* logged, every binding of the list (the failing one included) is still sent
\* the contraflow exactly once per fan-out, the list of bindings is unchanged,
\* the loop goes on unless the message was Stop, and an event handled with
\* failing sends changes no lifecycle or drain state.
ErrorsLogged(eff) == {i \in DOMAIN eff : eff[i].e = "error"}
SentTo(eff, cf, url) ==
    Cardinality({i \in DOMAIN eff : eff[i] = SendInsight(url, cf)})
FanoutStep == Fanouts(effects') # <<>>

C30_Step ==
    (FanoutStep /\ \E i \in DOMAIN pipelines : pipelines[i] \in failing)
    => /\ ErrorsLogged(effects') # {}
       /\ \A k \in DOMAIN Fanouts(effects'), url \in Urls :
             SentTo(effects', Fanouts(effects')[k].cf, url)
                = Occurrences(pipelines, url) * FanoutCount(effects', Fanouts(effects')[k].cf)
       /\ Cardinality(ErrorsLogged(effects'))
             = Cardinality({i \in DOMAIN effects' :
                              effects'[i].e = "send_insight" /\ effects'[i].to \in failing})
       /\ pipelines' = pipelines
       /\ failing' = failing
       /\ pc' = "loop"
       /\ handled'.type = "Event"
          => UNCHANGED <<state, starts_received, drains_received, drain_channel>>

C30_FailedSendIsSkipped == [][C30_Step]_vars

\* the binding connected first fails, the second one does not, and an event
\* was acked: both were sent the ack, one error was logged, the loop runs on
C30_Witness ==
    /\ EventHandled
    /\ pipelines = <<"p1", "p2">>
    /\ failing = {"p1"}
    /\ Cardinality(ErrorsLogged(effects)) = 1
    /\ \A url \in Urls : SentTo(effects, Fanouts(effects)[1].cf, url) = 1
    /\ pc = "loop"

\* ------------------------------------------------ bindings and lifecycle
\* Connect with any list of bindings and Disconnect, between the lifecycle
\* messages and the drain protocol of one source
NextBindings ==
    \/ \E ps \in PipelineLists : OnConnect(ps) /\ UNCHANGED apart
    \/ \E id \in Urls : OnDisconnect(id) /\ UNCHANGED apart
    \/ OnStart /\ UNCHANGED apart
    \/ OnPause /\ UNCHANGED apart
    \/ OnResume /\ UNCHANGED apart
    \/ OnStop /\ UNCHANGED apart
    \/ OnDrain("r1") /\ UNCHANGED apart
    \/ \E k \in {"Start", "Drain"} :
          OnSignal(DrainSignal(k, 1), ResultOk(<<>>), 5, NoCalls) /\ UNCHANGED apart

SpecBindings == Init /\ [][NextBindings]_vars

\* C31: Connect appends its bindings behind the existing ones, which keep their
\* order; Disconnect{id} removes every binding of url id and keeps the others in
\* order (nothing changes when none matches); neither changes the lifecycle
\* state, the drain sets, the retained drain channel or the loop, in any state.
RECURSIVE Retained(_, _)
Retained(bindings, id) ==
    IF bindings = <<>> THEN <<>>
    ELSE (IF Head(bindings) = id THEN <<>> ELSE <<Head(bindings)>>)
         \o Retained(Tail(bindings), id)

C31_Step ==
    /\ handled'.type = "Connect"
       => /\ pipelines' = pipelines \o handled'.pipelines
          /\ UNCHANGED <<state, pc, starts_received, drains_received, drain_channel>>
    /\ handled'.type = "Disconnect"
       => /\ pipelines' = Retained(pipelines, handled'.id)
          /\ Occurrences(pipelines, handled'.id) = 0 => pipelines' = pipelines
          /\ UNCHANGED <<state, pc, starts_received, drains_received, drain_channel>>

C31_ConnectDisconnect == [][C31_Step]_vars

\* a drained sink with one binding was connected a second, different one
C31_Witness ==
    /\ handled.type = "Connect"
    /\ state = "Drained"
    /\ handled.pipelines = <<"p1">>
    /\ pipelines = <<"p2", "p1">>

\* ------------------------------------------------- asynchronous replies
\* every AsyncSinkReply of one event, in every lifecycle state, after events
\* that left their mark on merged_operator_meta and the serializer
AsyncReplies == {a \in AsyncSinkReply : a.data.event_id = 42 /\ a.data.op_meta = {"opB"}}

NextAsync ==
    \/ OnConnect(<<"p1">>) /\ UNCHANGED apart
    \/ OnStart /\ UNCHANGED apart
    \/ OnPause /\ UNCHANGED apart
    \/ OnResume /\ UNCHANGED apart
    \/ OnStop /\ UNCHANGED apart
    \/ OnDrain("r1") /\ UNCHANGED apart
    \/ \E k \in {"Start", "Drain"} :
          OnSignal(DrainSignal(k, 1), ResultOk(<<>>), 5, NoCalls) /\ UNCHANGED apart
    \/ OnEvent(SerializerEvent, ResultOk(<<>>), FALSE, 5, <<SerializeFor(1)>>)
          /\ UNCHANGED apart
    \/ \E reply \in AsyncReplies : OnAsyncReply(reply) /\ UNCHANGED apart

SpecAsync == Init /\ [][NextAsync]_vars

\* C32: an AsyncSinkReply handled produces exactly one fan-out, of the kind of
\* the reply (Ack with the given duration, Fail, or the given CB action) and with
\* the id, ingest_ns and op_meta of the embedded template, delivered once to each
\* binding; no method of the sink is called, and the lifecycle state, the
\* bindings, the drain sets and channel, merged_operator_meta and the serializer
\* stay as they were.
AsyncStep == handled'.type = "AsyncReply"
ReplyKind(reply) ==
    IF reply.tag = "Ack" THEN CbAck ELSE IF reply.tag = "Fail" THEN CbFail ELSE reply.cb

C32_Step ==
    AsyncStep
    => LET reply == handled'.reply
           cfs == Fanouts(effects')
       IN /\ Len(cfs) = 1
          /\ cfs[1].cf.cb = ReplyKind(reply)
          /\ cfs[1].cf.id = reply.data.event_id
          /\ cfs[1].cf.ingest_ns = reply.data.ingest_ns
          /\ cfs[1].cf.op_meta = reply.data.op_meta
          /\ cfs[1].cf.duration = IF reply.tag = "Ack" THEN reply.duration ELSE NoDuration
          /\ OneToEach(effects', pipelines, ReplyKind(reply))
          /\ \A i \in DOMAIN effects' :
                effects'[i].e \in {"send_contraflow", "send_insight"}
          /\ UNCHANGED <<state, pc, pipelines, starts_received, drains_received,
                         drain_channel, merged_operator_meta, serializer>>

C32_AsyncReplyFanout == [][C32_Step]_vars

\* a drained sink that has seen an event fans out a timed asynchronous ack
C32_Witness ==
    /\ handled.type = "AsyncReply"
    /\ handled.reply.tag = "Ack"
    /\ handled.reply.duration = 5
    /\ state = "Drained"
    /\ pipelines = <<"p1">>
    /\ merged_operator_meta # {}
    /\ StreamsOf(serializer) # {}
    /\ Len(Fanouts(effects)) = 1
    /\ Fanouts(effects)[1].cf.duration = 5

\* C33: the lifecycle state only moves forward: a sink that left Initialized
\* never returns to it, a Draining or Drained sink never becomes Running or
\* Paused again (Start, Pause and Resume change nothing and call no hook there),
\* and a Drained sink never becomes Draining again.
C33_Step ==
    /\ state # "Initialized" => state' # "Initialized"
    /\ state \in {"Draining", "Drained"} => state' \notin {"Running", "Paused"}
    /\ state = "Drained" => state' # "Draining"
    /\ (state \in {"Draining", "Drained"} /\ handled'.type \in {"Start", "Pause", "Resume"})
       => state' = state /\ effects' = <<>>

C33_StateMovesForward == [][C33_Step]_vars

\* a Start message was ignored by a drained sink
C33_Witness ==
    /\ handled.type = "Start"
    /\ state = "Drained"
    /\ effects = <<>>

\* ------------------------------------------------------ lifecycle hooks
\* the names of the hooks among the calls of one step, in order
HooksCalled(eff) ==
    LET called == SelectSeq(eff, LAMBDA x : x.e = "hook")
    IN [i \in 1..Len(called) |-> called[i].name]

\* the hooks of the step are added to the record
RecordHooks ==
    /\ Len(hooks) + Len(HooksCalled(effects')) <= MaxHooks
    /\ hooks' = hooks \o HooksCalled(effects')
    /\ UNCHANGED raft_vars

\* the lifecycle messages in any order, between the drain protocol of one source
NextHooks ==
    \/ OnStart /\ UNCHANGED chans /\ RecordHooks
    \/ OnPause /\ UNCHANGED chans /\ RecordHooks
    \/ OnResume /\ UNCHANGED chans /\ RecordHooks
    \/ OnStop /\ UNCHANGED chans /\ RecordHooks
    \/ OnDrain("r1") /\ UNCHANGED chans /\ RecordHooks
    \/ \E k \in {"Start", "Drain"} :
          /\ OnSignal(DrainSignal(k, 1), ResultOk(<<>>), 5, NoCalls)
          /\ UNCHANGED chans
          /\ RecordHooks
    \/ OnEvent(SerializerEvent, ResultOk(<<>>), TRUE, 5, NoCalls)
          /\ UNCHANGED chans /\ RecordHooks

SpecHooks == Init /\ [][NextHooks]_vars

\* C34: over any sequence of messages on_start is called at most once and
\* before any on_pause or on_resume; on_pause and on_resume alternate strictly,
\* on_pause first; on_stop is called at most once and after every other hook;
\* and a hook is called in a step exactly when the step takes its transition
\* (Initialized to Running, Running to Paused, Paused to Running, to Stopped).
PauseResume(h) == SelectSeq(h, LAMBDA x : x \in {"on_pause", "on_resume"})
WellFormed(h) ==
    /\ Occurrences(h, "on_start") <= 1
    /\ \A i \in DOMAIN h :
          h[i] \in {"on_pause", "on_resume"}
             => \E j \in 1..(i - 1) : h[j] = "on_start"
    /\ \A k \in DOMAIN PauseResume(h) :
          PauseResume(h)[k] = IF k % 2 = 1 THEN "on_pause" ELSE "on_resume"
    /\ Occurrences(h, "on_stop") <= 1
    /\ \A i \in DOMAIN h : h[i] = "on_stop" => i = Len(h)
HookOf(from, to, name) ==
    (state = from /\ state' = to) <=> HooksCalled(effects') = <<name>>

C34_Step ==
    /\ WellFormed(hooks')
    /\ HookOf("Initialized", "Running", "on_start")
    /\ HookOf("Running", "Paused", "on_pause")
    /\ HookOf("Paused", "Running", "on_resume")
    /\ (state # "Stopped" /\ state' = "Stopped") <=> HooksCalled(effects') = <<"on_stop">>
    /\ Len(HooksCalled(effects')) <= 1

C34_HookOrder == [][C34_Step]_vars

\* a sink started, paused, resumed and stopped
C34_Witness ==
    /\ hooks = <<"on_start", "on_pause", "on_resume", "on_stop">>
    /\ state = "Stopped"
    /\ pc = "done"

\* --------------------------------------------------- longer reply vectors
\* one transactional event waits for a sink connected to two pipelines; on_event
\* answers it with any vector of up to MaxReplies + 1 replies
ReplyVectors == {ResultOk(r) : r \in SeqsUpTo(SinkReply, MaxReplies + 1)}

InitReplies ==
    /\ state = "Running"
    /\ pc = "loop"
    /\ pipelines = <<"p1", "p2">>
    /\ starts_received = {}
    /\ drains_received = {}
    /\ drain_channel = NoChan
    /\ merged_operator_meta = {}
    /\ serializer = build
    /\ failing = {}
    /\ hooks = <<>>
    /\ node = Started
    /\ join = NotJoining
    /\ kv = EmptyKv
    /\ rx = <<EventMsg([id |-> 42, ingest_ns |-> 7, op_meta |-> {"opA"},
                        transactional |-> TRUE, kind |-> NoKind])>>
    /\ reply_rx = <<>>
    /\ handled = [type |-> "Nothing"]
    /\ effects = <<>>

RecvReplies ==
    /\ reply_rx = <<>>
    /\ rx # <<>>
    /\ \E res \in ReplyVectors, auto_ack \in BOOLEAN :
          OnEvent(Head(rx).event, res, auto_ack, 5, NoCalls)
    /\ rx' = Tail(rx)
    /\ UNCHANGED <<reply_rx, beside>>

NextReplies == RecvReplies

SpecReplies == InitReplies /\ [][NextReplies]_vars

\* C35: for a reply vector [r1, .., rn] the contraflow of r2..rn is emitted
\* first, in the order of the vector (None entries emit nothing), and the
\* contraflow of r1, or the automatic ack standing in for a None r1, last; each
\* pipeline is sent them in that order.
CbOf(reply) ==
    IF reply.tag = "Ack" THEN CbAck ELSE IF reply.tag = "Fail" THEN CbFail ELSE reply.cb
CbsOf(replies) ==
    LET said == SelectSeq(replies, LAMBDA r : r.tag # "None")
    IN [i \in 1..Len(said) |-> CbOf(said[i])]
EmissionOrder(eff) == [i \in 1..Len(Fanouts(eff)) |-> Fanouts(eff)[i].cf.cb]
SeenBy(eff, url) ==
    LET got == SelectSeq(eff, LAMBDA x : x.e = "send_insight" /\ x.to = url)
    IN [i \in 1..Len(got) |-> got[i].cf.cb]
ExpectedOrder(replies, send_auto_ack) ==
    CbsOf(Tail(replies))
    \o (IF Head(replies).tag # "None" THEN <<CbOf(Head(replies))>>
        ELSE IF send_auto_ack THEN <<CbAck>> ELSE <<>>)

C35_FirstReplyLast ==
    (EventHandled /\ handled.res.ok /\ handled.res.replies # <<>>)
    => LET expected == ExpectedOrder(handled.res.replies,
                                     handled.event.transactional /\ handled.auto_ack)
       IN /\ EmissionOrder(effects) = expected
          /\ \A url \in Connected : SeenBy(effects, url) = expected

\* three different replies: the second and third are answered before the first
C35_Witness ==
    /\ EventHandled
    /\ handled.res = ResultOk(<<ReplyAck, ReplyFail, ReplyCB(CbClose)>>)
    /\ EmissionOrder(effects) = <<CbFail, CbClose, CbAck>>
    /\ SeenBy(effects, "p2") = <<CbFail, CbClose, CbAck>>

\* C36: a drain reply channel is retained only while the sink is Draining or,
\* when Stop interrupted the drain, Stopped; never in Initialized, Running,
\* Paused or Drained.
C36_ChannelOnlyWhileDraining ==
    drain_channel # NoChan => state \in {"Draining", "Stopped"}

\* a draining sink was stopped and still holds the reply channel
C36_Witness ==
    /\ handled.type = "Stop"
    /\ state = "Stopped"
    /\ drain_channel # NoChan

\* ==================================================== the cluster node
\* raft/node.rs shares no state with the connector sink
sink_vars == <<state, pc, pipelines, starts_received, drains_received, drain_channel,
               merged_operator_meta, serializer, failing, hooks, rx, reply_rx,
               handled, effects>>

\* mutant: the kill switch takes a second request while one is pending
stop_Unbounded(n, mode) ==
    IF n.pc = "done"
    THEN [n EXCEPT !.stop = [mode |-> mode, res |-> "err"], !.last = "stop"]
    ELSE [n EXCEPT !.kill_switch = Append(n.kill_switch, mode),
                   !.stop = [mode |-> mode, res |-> "ok"], !.last = "stop"]

\* ClusterNodeKillSwitch::stop: try_send on the bounded(1) channel, whose
\* receiver lives in the run task; Full and Closed both become the error
stop(n, mode) ==
    IF n.pc = "done" \/ Len(n.kill_switch) >= 1
    THEN [n EXCEPT !.stop = [mode |-> mode, res |-> "err"], !.last = "stop"]
    ELSE [n EXCEPT !.kill_switch = <<mode>>,
                   !.stop = [mode |-> mode, res |-> "ok"], !.last = "stop"]

\* somebody holding a kill switch (or Running itself) asks the node to stop
KillSwitchStop(mode) ==
    /\ node.senders
    /\ node' = stop(node, mode)
    /\ UNCHANGED <<sink_vars, join, kv>>

\* Running and every kill switch are dropped: the channel closes
DropKillSwitches ==
    /\ node.senders
    /\ node' = [node EXCEPT !.senders = FALSE, !.last = "drop"]
    /\ UNCHANGED <<sink_vars, join, kv>>

\* the mode runtime.stop is going to be called with in each arm of select!
ModeOf(branch, received) ==
    IF branch = "kill_switch"
    THEN (IF received = "closed" THEN "Forceful" ELSE received)
    ELSE IF branch \in {"tcp", "http"} THEN "Graceful"
    ELSE NoMode

\* select! takes the arm of a future that is ready: the RPC listener, the HTTP
\* API or the runtime task ended, or the kill switch yields a request (None
\* once it is closed and empty); every arm starts with api_worker_handle.abort()
Select(branch) ==
    /\ node.pc = "select"
    /\ branch = "kill_switch" => (node.kill_switch # <<>> \/ ~node.senders)
    /\ LET received == IF branch # "kill_switch" THEN "none"
                       ELSE IF node.kill_switch # <<>> THEN Head(node.kill_switch)
                       ELSE "closed"
       IN node' = [node EXCEPT
                     !.pc = "raft",
                     !.branch = branch,
                     !.received = received,
                     !.mode = ModeOf(branch, received),
                     !.kill_switch = IF branch = "kill_switch" /\ node.kill_switch # <<>>
                                     THEN Tail(node.kill_switch) ELSE node.kill_switch,
                     !.calls = <<NodeCall("api_worker.abort", NoMode)>>,
                     !.last = "select"]
    /\ UNCHANGED <<sink_vars, join, kv>>

\* raft.shutdown().await.map_err(..)?
RaftShutdown(ok) ==
    /\ node.pc = "raft"
    /\ node' = [node EXCEPT
                  !.calls = Append(node.calls, NodeCall("raft.shutdown", NoMode)),
                  !.pc = IF ~ok THEN "done"
                         ELSE IF node.branch = "runtime" THEN "done" ELSE "stop",
                  !.result = IF ~ok THEN "err"
                             ELSE IF node.branch = "runtime" THEN "ok" ELSE node.result,
                  !.last = "raft"]
    /\ UNCHANGED <<sink_vars, join, kv>>

\* runtime.stop(mode).await?
RuntimeStop(ok) ==
    /\ node.pc = "stop"
    /\ node' = [node EXCEPT
                  !.calls = Append(node.calls, NodeCall("runtime.stop", node.mode)),
                  !.pc = IF ok THEN "await" ELSE "done",
                  !.result = IF ok THEN node.result ELSE "err",
                  !.last = "runtime.stop"]
    /\ UNCHANGED <<sink_vars, join, kv>>

\* runtime_future.await??
RuntimeAwait(ok) ==
    /\ node.pc = "await"
    /\ node' = [node EXCEPT
                  !.calls = Append(node.calls, NodeCall("runtime.await", NoMode)),
                  !.pc = "done",
                  !.result = IF ok THEN "ok" ELSE "err",
                  !.last = "runtime.await"]
    /\ UNCHANGED <<sink_vars, join, kv>>

Branches == {"tcp", "http", "runtime", "kill_switch"}

\* the steps of the run task after select!
Shutdown ==
    \E ok \in BOOLEAN : RaftShutdown(ok) \/ RuntimeStop(ok) \/ RuntimeAwait(ok)

NextNode ==
    \/ \E mode \in ShutdownMode : KillSwitchStop(mode)
    \/ DropKillSwitches
    \/ \E branch \in Branches : Select(branch)
    \/ \E ok \in BOOLEAN : RaftShutdown(ok)
    \/ \E ok \in BOOLEAN : RuntimeStop(ok)
    \/ \E ok \in BOOLEAN : RuntimeAwait(ok)

\* the run task is a spawned task: it is polled when the kill switch has
\* something for it, and the calls it awaits return
SpecNode ==
    /\ Init
    /\ [][NextNode]_vars
    /\ WF_vars(Select("kill_switch"))
    /\ WF_vars(Shutdown)

\* C37: when the run task of the node has ended, by whichever arm of select!,
\* it has aborted the API worker, then shut down raft, then stopped the runtime
\* and awaited it, in this order and nothing else; only the arm of the ended
\* runtime task skips the last two. The runtime is stopped in the mode received
\* from the kill switch, Forceful when the kill switch closed without a request,
\* Graceful when a listener ended.
ShutdownCalls(branch, received) ==
    <<NodeCall("api_worker.abort", NoMode), NodeCall("raft.shutdown", NoMode)>>
    \o (IF branch = "runtime" THEN <<>>
        ELSE <<NodeCall("runtime.stop",
                        IF branch = "kill_switch"
                        THEN (IF received = "closed" THEN "Forceful" ELSE received)
                        ELSE "Graceful"),
               NodeCall("runtime.await", NoMode)>>)

C37_OrderedShutdown ==
    node.pc = "done" => node.calls = ShutdownCalls(node.branch, node.received)

\* C38: stop does not wait (it is enabled whatever the run task does); it
\* returns the error and leaves the channel alone when the run task has
\* finished or a request is pending; otherwise it succeeds and its request is
\* pending; and after a stop that succeeded the run task eventually ends.
StopStep == node'.last = "stop"

C38_Step ==
    /\ node.senders => \A mode \in ShutdownMode : ENABLED KillSwitchStop(mode)
    /\ StopStep
       => /\ node'.pc = node.pc
          /\ (node.pc = "done" \/ node.kill_switch # <<>>)
             => node'.stop.res = "err" /\ node'.kill_switch = node.kill_switch
          /\ (node.pc # "done" /\ node.kill_switch = <<>>)
             => node'.stop.res = "ok" /\ node'.kill_switch = <<node'.stop.mode>>

C38_KillSwitch ==
    /\ [][C38_Step]_vars
    /\ (node.last = "stop" /\ node.stop.res = "ok") ~> node.pc = "done"

\* a second stop was refused while the first request waits for the run task
C38_Witness ==
    /\ node.last = "stop"
    /\ node.stop = [mode |-> "Graceful", res |-> "err"]
    /\ node.kill_switch = <<"Forceful">>
    /\ node.pc = "select"

\* ------------------------------------------------------------ try_join
Endpoints == {"e1", "e2"}
EndpointLists == SeqsUpTo(Endpoints, MaxEndpoints)
\* one call made by try_join, with what it was given and whether it succeeded
JoinCall(name, arg, ok) == [call |-> name, arg |-> arg, ok |-> ok]

\* Node::try_join is called; an empty list of endpoints is refused at once
TryJoin(endpoints, promote_to_voter) ==
    /\ join.pc = "idle"
    /\ join' = [join EXCEPT
                  !.endpoints = endpoints,
                  !.promote_to_voter = promote_to_voter,
                  !.pc = IF endpoints = <<>> THEN "done" ELSE "joining",
                  !.round = IF endpoints = <<>> THEN 0 ELSE 1,
                  !.result = IF endpoints = <<>> THEN "err" ELSE "none"]
    /\ UNCHANGED <<sink_vars, node, kv>>

\* one pass of `for endpoint in &endpoints`: the client is built (`?`), then
\* add_node is called; Err goes on with the next endpoint, and after the last
\* one the loop sleeps and starts the next round
AddNode(outcome) ==
    /\ join.pc = "joining"
    /\ join.round <= MaxRounds
    /\ LET endpoint == join.endpoints[join.next]
           built == JoinCall("Tremor::new", endpoint, outcome # "no_client")
           added == JoinCall("add_node", endpoint, outcome = "ok")
           last == join.next = Len(join.endpoints)
       IN join' =
            IF outcome = "no_client"
            THEN [join EXCEPT !.calls = Append(join.calls, built),
                              !.pc = "done", !.result = "err"]
            ELSE IF outcome = "ok"
            THEN [join EXCEPT !.calls = join.calls \o <<built, added>>,
                              !.pc = "starting"]
            ELSE [join EXCEPT !.calls = join.calls \o <<built, added>>,
                              !.next = IF last THEN 1 ELSE join.next + 1,
                              !.round = IF last THEN join.round + 1 ELSE join.round]
    /\ UNCHANGED <<sink_vars, node, kv>>

\* Runtime::start(..)?, Store::bootstrap and Raft::new, Running::start(..)?
StartNode(fails_at) ==
    /\ join.pc = "starting"
    /\ join' =
         IF fails_at = "Runtime::start"
         THEN [join EXCEPT !.calls = Append(join.calls, JoinCall("Runtime::start", "", FALSE)),
                           !.pc = "done", !.result = "err"]
         ELSE IF fails_at = "Running::start"
         THEN [join EXCEPT !.calls = join.calls
                                        \o <<JoinCall("Runtime::start", "", TRUE),
                                             JoinCall("Running::start", "", FALSE)>>,
                           !.pc = "done", !.result = "err"]
         ELSE [join EXCEPT !.calls = join.calls
                                        \o <<JoinCall("Runtime::start", "", TRUE),
                                             JoinCall("Running::start", "", TRUE)>>,
                           !.pc = "learner"]
    /\ UNCHANGED <<sink_vars, node, kv>>

\* client.add_learner(&node_id).await?
AddLearner(ok) ==
    /\ join.pc = "learner"
    /\ join' = [join EXCEPT
                  !.calls = Append(join.calls, JoinCall("add_learner", "", ok)),
                  !.pc = IF ok /\ join.promote_to_voter THEN "voter" ELSE "done",
                  !.result = IF ~ok THEN "err"
                             ELSE IF join.promote_to_voter THEN "none" ELSE "ok"]
    /\ UNCHANGED <<sink_vars, node, kv>>

\* client.promote_voter(&node_id).await?
PromoteVoter(ok) ==
    /\ join.pc = "voter"
    /\ join' = [join EXCEPT
                  !.calls = Append(join.calls, JoinCall("promote_voter", "", ok)),
                  !.pc = "done",
                  !.result = IF ok THEN "ok" ELSE "err"]
    /\ UNCHANGED <<sink_vars, node, kv>>

NextJoin ==
    \/ \E endpoints \in EndpointLists, promote_to_voter \in BOOLEAN :
          TryJoin(endpoints, promote_to_voter)
    \/ \E outcome \in {"ok", "err", "no_client"} : AddNode(outcome)
    \/ \E fails_at \in {"none", "Runtime::start", "Running::start"} : StartNode(fails_at)
    \/ \E ok \in BOOLEAN : AddLearner(ok)
    \/ \E ok \in BOOLEAN : PromoteVoter(ok)

SpecJoin == Init /\ [][NextJoin]_vars

\* C39: try_join with no endpoints returns an error and has called nothing;
\* otherwise add_node is tried on the endpoints in order, round after round,
\* and try_join does not return before one add_node has succeeded; add_learner
\* is called only after Running::start succeeded, promote_voter only after
\* add_learner succeeded and only when promote_to_voter is set.
CallsOf(name) == SelectSeq(join.calls, LAMBDA c : c.call = name)
Succeeded(name) == \E i \in DOMAIN join.calls : join.calls[i] = JoinCall(name, "", TRUE)
CalledAt(name) == {i \in DOMAIN join.calls : join.calls[i].call = name}

C39_JoinProtocol ==
    /\ (join.pc = "done" /\ join.endpoints = <<>>)
       => join.result = "err" /\ join.calls = <<>>
    /\ \A i \in DOMAIN CallsOf("add_node") :
          CallsOf("add_node")[i].arg
             = join.endpoints[((i - 1) % Len(join.endpoints)) + 1]
    /\ (join.pc = "done" /\ join.endpoints # <<>>)
       => \E i \in DOMAIN join.calls : join.calls[i].call = "add_node" /\ join.calls[i].ok
    /\ \A i \in CalledAt("add_learner") :
          \E j \in 1..(i - 1) : join.calls[j] = JoinCall("Running::start", "", TRUE)
    /\ \A i \in CalledAt("promote_voter") :
          /\ join.promote_to_voter
          /\ \E j \in 1..(i - 1) : join.calls[j] = JoinCall("add_learner", "", TRUE)

\* ------------------------------------------------------- kv endpoints
Keys == {"k1", "k2"}
Values == {"v1", "v2"}
NoValue == "none"
\* one call made by a kv handler and how it ended
KvCall(name, outcome) == [call |-> name, outcome |-> outcome]
KvRequest(endpoint, key, fails_at) ==
    [endpoint |-> endpoint, key |-> key, fails_at |-> fails_at]

\* ToAPIResult::to_api_result: Ok stays Ok, ForwardToLeader becomes a redirect,
\* any other error of raft an error
to_api_result(outcome) ==
    IF outcome = "ok" THEN "ok"
    ELSE IF outcome = "forward_to_leader" THEN "redirect"
    ELSE "error"

\* the KVGet request to the API worker and the answer awaited with a timeout,
\* shared by read and consistent_read
KvGet(key, fails_at) ==
    IF fails_at = "send" THEN <<KvCall("KVGet", "send_failed")>>
    ELSE IF fails_at = "recv" THEN <<KvCall("KVGet", "no_answer")>>
    ELSE <<KvCall("KVGet", "ok")>>

KvAnswer(key, fails_at) ==
    IF fails_at \in {"send", "recv"} THEN [kind |-> "error", value |-> NoValue]
    ELSE [kind |-> "ok", value |-> kv.store[key]]

\* kv::read: the local store is asked whatever the role of the node
Read(key, fails_at) ==
    /\ fails_at \in {"none", "body", "send", "recv"}
    /\ kv' = [kv EXCEPT
                !.request = KvRequest("read", key, fails_at),
                !.calls = IF fails_at = "body" THEN <<>> ELSE KvGet(key, fails_at),
                !.result = IF fails_at = "body" THEN [kind |-> "error", value |-> NoValue]
                           ELSE KvAnswer(key, fails_at),
                !.last = "request"]
    /\ UNCHANGED <<sink_vars, node, join>>

\* what raft.client_read() answers: Ok only on the leader, and there only when
\* a quorum confirmed it
ClientRead(fails_at) ==
    IF fails_at # "client_read" THEN "ok"
    ELSE IF kv.leader THEN "quorum_not_enough" ELSE "forward_to_leader"

\* mutant: the store is read although client_read failed
ConsistentRead_ReadsAnyway(key, fails_at) ==
    /\ fails_at \in {"none", "body", "client_read", "send", "recv"}
    /\ ~kv.leader => fails_at \in {"body", "client_read"}
    /\ kv' = [kv EXCEPT
                !.request = KvRequest("consistent_read", key, fails_at),
                !.calls = IF fails_at = "body" THEN <<>>
                          ELSE <<KvCall("client_read", ClientRead(fails_at))>>
                               \o KvGet(key, fails_at),
                !.result = IF fails_at = "body" THEN [kind |-> "error", value |-> NoValue]
                           ELSE KvAnswer(key, fails_at),
                !.last = "request"]
    /\ UNCHANGED <<sink_vars, node, join>>

\* kv::consistent_read: client_read first, `?` on its result, then as read
ConsistentRead(key, fails_at) ==
    /\ fails_at \in {"none", "body", "client_read", "send", "recv"}
    /\ ~kv.leader => fails_at \in {"body", "client_read"}
    /\ kv' = [kv EXCEPT
                !.request = KvRequest("consistent_read", key, fails_at),
                !.calls = IF fails_at = "body" THEN <<>>
                          ELSE IF fails_at = "client_read"
                          THEN <<KvCall("client_read", ClientRead(fails_at))>>
                          ELSE <<KvCall("client_read", "ok")>> \o KvGet(key, fails_at),
                !.result = IF fails_at = "body" THEN [kind |-> "error", value |-> NoValue]
                           ELSE IF fails_at = "client_read"
                           THEN [kind |-> to_api_result(ClientRead(fails_at)),
                                 value |-> NoValue]
                           ELSE KvAnswer(key, fails_at),
                !.last = "request"]
    /\ UNCHANGED <<sink_vars, node, join>>

\* the state machine applies a replicated write to the local store
Apply(key, value) ==
    /\ kv' = [kv EXCEPT !.store[key] = value, !.last = "apply"]
    /\ UNCHANGED <<sink_vars, node, join>>

\* the node wins or loses the leadership
Elect(leader) ==
    /\ kv.leader # leader
    /\ kv' = [kv EXCEPT !.leader = leader, !.last = "elect"]
    /\ UNCHANGED <<sink_vars, node, join>>

NextKv ==
    \/ \E key \in Keys, fails_at \in {"none", "body", "send", "recv"} : Read(key, fails_at)
    \/ \E key \in Keys, fails_at \in {"none", "body", "client_read", "send", "recv"} :
          ConsistentRead(key, fails_at)
    \/ \E key \in Keys, value \in Values : Apply(key, value)
    \/ \E leader \in BOOLEAN : Elect(leader)

SpecKv == Init /\ [][NextKv]_vars

\* C40: consistent_read asks the local store only after client_read succeeded
\* on this node, which it does only on the leader; when client_read fails the
\* store is not asked and an error or a redirect is returned; read asks the
\* local store without client_read, on a follower as well; a value returned is
\* the one of the local store.
KvCalled(k, name) == {i \in DOMAIN k.calls : k.calls[i].call = name}
RequestStep(endpoint) == kv'.last = "request" /\ kv'.request.endpoint = endpoint

C40_Step ==
    /\ RequestStep("consistent_read")
       => /\ \A i \in KvCalled(kv', "KVGet") :
                /\ kv.leader
                /\ \E j \in 1..(i - 1) : kv'.calls[j] = KvCall("client_read", "ok")
          /\ (\E i \in KvCalled(kv', "client_read") : kv'.calls[i].outcome # "ok")
             => /\ KvCalled(kv', "KVGet") = {}
                /\ kv'.result.kind \in {"error", "redirect"}
          /\ kv'.result.kind = "ok" => KvCalled(kv', "KVGet") # {}
    /\ RequestStep("read")
       => /\ KvCalled(kv', "client_read") = {}
          /\ kv'.request.fails_at # "body" => KvCalled(kv', "KVGet") # {}
    /\ (kv'.last = "request" /\ kv'.result.kind = "ok")
       => kv'.result.value = kv.store[kv'.request.key]
    /\ kv'.last = "request" => kv'.store = kv.store /\ kv'.leader = kv.leader

C40_LeaderCheckedRead == [][C40_Step]_vars

\* a follower holding a value for the key was asked for a consistent read: it
\* answered with a redirect and did not ask its store
C40_Witness ==
    /\ kv.last = "request"
    /\ kv.request = KvRequest("consistent_read", "k1", "client_read")
    /\ ~kv.leader
    /\ kv.store["k1"] = "v1"
    /\ kv.calls = <<KvCall("client_read", "forward_to_leader")>>
    /\ kv.result = [kind |-> "redirect", value |-> NoValue]

====
